---------------------------- MODULE Spec2Model ----------------------------
(***************************************************************************)
(* Model of the sparse voxel face-exposure engine of Decode-PAINT:         *)
(* locsutil.voxelize, voxelutil.count_exposed_faces and its helpers,       *)
(* analyze.analyze_clusters and voxelscan.voxel_scan / _analyze_vox.       *)
(*                                                                         *)
(* A pandas DataFrame is a record                                          *)
(*   [err, cols, rows, nonfinite]                                          *)
(* cols is the set of column names, rows the sequence of rows in index     *)
(* order (each row a function from column name to integer), nonfinite the  *)
(* set of columns whose cells hold inf/nan (the result of a floor division *)
(* by zero; the integer stored in such a cell is meaningless), and err is  *)
(* "none" for a value and the Python exception name for a call that raised.*)
(* Coordinates in nm are integer-valued.                                   *)
(***************************************************************************)
EXTENDS Integers, Sequences, FiniteSets, TLC

VARIABLES
    locs,       \* the caller's localization table (x_nm, y_nm, z, id, hdbscan)
    bin_xy,     \* voxelize argument
    bin_z,      \* voxelize argument
    pc,         \* position of the pipeline
    data,       \* the voxelized table (analyze_data / voxel_scan local `data`)
    counted,    \* what count_exposed_faces returned (or the exception it raised)
    analyzed,   \* what analyze_clusters returned (or the exception it raised)
    sweep,      \* _analyze_vox arguments [bin_min, bin_max, step, cutoff]
    curve,      \* what the last voxel_scan call returned (or the exception it raised)
    ret,        \* _analyze_vox: its lists, loop position and outcome
    cluster,    \* decode_ids argument: the localizations of one cluster (x, y)
    masks,      \* decode_ids argument: the list of mask images
    decoded,    \* what decode_ids returned (or the exception it raised)
    hdf5_list,  \* concatenate.main: the stored tables of the files, in name order
    args,       \* concatenate.main: z_step and the clean_locs thresholds
    outdata,    \* concatenate.main local `outdata`
    off_val,    \* concatenate.main local `off_val`
    z_val,      \* concatenate.main local `z_val`
    item,       \* concatenate.main: how many files the loop has taken
    yaml,       \* concatenate.main: the first *.yaml file of the directory
    written     \* concatenate.main: the files written (or the exception raised)

voxelVars == <<locs, bin_xy, bin_z, pc, data, counted, analyzed, sweep, curve, ret>>

decodeVars == <<cluster, masks, decoded>>

concatVars == <<hdf5_list, args, outdata, off_val, z_val, item, yaml, written>>

vars == <<voxelVars, decodeVars, concatVars>>

---------------------------------------------------------------------------
(* Bounds of the model.                                                    *)

MaxPts == 3
MaxSide == 4
MaxHoles == 1

---------------------------------------------------------------------------
(* DataFrame plumbing.                                                     *)

DataFrame(cols, rows) ==
    [err |-> "none", cols |-> cols, rows |-> rows, nonfinite |-> {}]

Raise(e) == [err |-> e, cols |-> {}, rows |-> <<>>, nonfinite |-> {}]

EmptyFrame == DataFrame({}, <<>>)

SetCol(r, c, v) == [k \in (DOMAIN r) \cup {c} |-> IF k = c THEN v ELSE r[k]]

DropCol(r, c) == [k \in (DOMAIN r) \ {c} |-> r[k]]

Project(r, cs) == [k \in cs |-> r[k]]

Range(s) == {s[i] : i \in DOMAIN s}

RECURSIVE SumSeq(_)
SumSeq(s) == IF s = <<>> THEN 0 ELSE Head(s) + SumSeq(Tail(s))

ColSum(rows, c) == SumSeq([i \in DOMAIN rows |-> rows[i][c]])

ColMin(rows, c) ==
    CHOOSE m \in {rows[i][c] : i \in DOMAIN rows} :
        \A i \in DOMAIN rows : m <= rows[i][c]

VoxCols == {"x_vox", "y_vox", "z_vox"}

Triple(r) == <<r["x_vox"], r["y_vox"], r["z_vox"]>>

---------------------------------------------------------------------------
(* locsutil.voxelize                                                       *)

\* Variant of FloorDiv: truncating division (rounds toward zero), as int(v / b).
TruncDiv(v, b) ==
    IF b = 0 THEN 0
    ELSE LET av == IF v < 0 THEN -v ELSE v
             ab == IF b < 0 THEN -b ELSE b
             q  == av \div ab
         IN IF (v < 0) = (b < 0) THEN q ELSE -q

\* Python's // on numbers: the quotient rounded toward negative infinity,
\* for a divisor of either sign.  For b = 0 the float result is inf/nan:
\* the cell value is unused and the column is recorded in `nonfinite`.
FloorDiv(v, b) ==
    IF b = 0 THEN 0
    ELSE LET av == IF v < 0 THEN -v ELSE v
             ab == IF b < 0 THEN -b ELSE b
             q  == av \div ab
         IN IF (v < 0) = (b < 0) THEN q
            ELSE IF q * ab = av THEN -q ELSE -q - 1

voxelize(locs_data, bxy, bz) ==
    LET vox(r) == SetCol(SetCol(SetCol(r,
                        "x_vox", FloorDiv(r["x_nm"], bxy)),
                        "y_vox", FloorDiv(r["y_nm"], bxy)),
                        "z_vox", FloorDiv(r["z"], bz))
    IN [err |-> "none",
        cols |-> locs_data.cols \cup VoxCols,
        rows |-> [i \in DOMAIN locs_data.rows |-> vox(locs_data.rows[i])],
        nonfinite |-> IF locs_data.rows = <<>> THEN {}
                      ELSE (IF bxy = 0 THEN {"x_vox", "y_vox"} ELSE {})
                           \cup (IF bz = 0 THEN {"z_vox"} ELSE {})]

---------------------------------------------------------------------------
(* voxelutil.auto_origin_df                                                *)

\* Variant of auto_origin_df: the indices are left where they are.
auto_origin_df_Unmoved(df) == df

\* Variant of auto_origin_df: every index is raised by one, whatever the minimum.
auto_origin_df_AddOne(df) ==
    [df EXCEPT !.rows =
        [i \in DOMAIN df.rows |->
            SetCol(SetCol(SetCol(df.rows[i],
                "x_vox", df.rows[i]["x_vox"] + 1),
                "y_vox", df.rows[i]["y_vox"] + 1),
                "z_vox", df.rows[i]["z_vox"] + 1)]]

\* Variant of auto_origin_df: the minimum is moved to 0 instead of 1.
auto_origin_df_ZeroBased(df) ==
    IF df.rows = <<>> THEN df
    ELSE LET mx == ColMin(df.rows, "x_vox")
             my == ColMin(df.rows, "y_vox")
             mz == ColMin(df.rows, "z_vox")
             shift(r) == SetCol(SetCol(SetCol(r,
                             "x_vox", r["x_vox"] - mx),
                             "y_vox", r["y_vox"] - my),
                             "z_vox", r["z_vox"] - mz)
         IN [df EXCEPT !.rows = [i \in DOMAIN df.rows |-> shift(df.rows[i])]]

auto_origin_df(df) ==
    IF df.rows = <<>> THEN df
    ELSE LET mx == ColMin(df.rows, "x_vox")
             my == ColMin(df.rows, "y_vox")
             mz == ColMin(df.rows, "z_vox")
             shift(r) == SetCol(SetCol(SetCol(r,
                             "x_vox", r["x_vox"] - mx + 1),
                             "y_vox", r["y_vox"] - my + 1),
                             "z_vox", r["z_vox"] - mz + 1)
         IN [df EXCEPT !.rows = [i \in DOMAIN df.rows |-> shift(df.rows[i])]]

---------------------------------------------------------------------------
(* voxelutil.scan_faces_1d                                                 *)

\* Variant of IterRows: only a gap wider than one missing voxel exposes faces.
RECURSIVE IterRows_WideGap(_, _, _)
IterRows_WideGap(faces, diff, index) ==
    IF index >= Len(faces) THEN faces
    ELSE LET f1 == IF index = 0
                   THEN [faces EXCEPT ![index + 1] = 1]
                   ELSE faces
             f2 == IF diff[index + 1] > 2
                   THEN [f1 EXCEPT ![index] = @ + 1, ![index + 1] = @ + 1]
                   ELSE f1
             f3 == IF index = Len(faces) - 1
                   THEN [f2 EXCEPT ![index + 1] = @ + 1]
                   ELSE f2
         IN IterRows_WideGap(f3, diff, index + 1)

\* Variant of IterRows: the high face of the last voxel is not counted.
RECURSIVE IterRows_NoLastFace(_, _, _)
IterRows_NoLastFace(faces, diff, index) ==
    IF index >= Len(faces) THEN faces
    ELSE LET f1 == IF index = 0
                   THEN [faces EXCEPT ![index + 1] = 1]
                   ELSE faces
             f2 == IF diff[index + 1] > 1
                   THEN [f1 EXCEPT ![index] = @ + 1, ![index + 1] = @ + 1]
                   ELSE f1
         IN IterRows_NoLastFace(f2, diff, index + 1)

\* The per-row loop of scan_faces_1d over one sorted column; `index` is the
\* 0-based row label of the source, `faces` and `diff` are 1-based sequences.
RECURSIVE IterRows(_, _, _)
IterRows(faces, diff, index) ==
    IF index >= Len(faces) THEN faces
    ELSE LET f1 == IF index = 0
                   THEN [faces EXCEPT ![index + 1] = 1]
                   ELSE faces
             f2 == IF diff[index + 1] > 1
                   THEN [f1 EXCEPT ![index] = @ + 1, ![index + 1] = @ + 1]
                   ELSE f1
             f3 == IF index = Len(faces) - 1
                   THEN [f2 EXCEPT ![index + 1] = @ + 1]
                   ELSE f2
         IN IterRows(f3, diff, index + 1)

\* sort_values(by=axis) followed by reset_index(drop=True).
RECURSIVE InsertRow(_, _, _)
InsertRow(sorted, r, axis) ==
    IF sorted = <<>> THEN <<r>>
    ELSE IF r[axis] < Head(sorted)[axis] THEN <<r>> \o sorted
    ELSE <<Head(sorted)>> \o InsertRow(Tail(sorted), r, axis)

RECURSIVE SortValues(_, _)
SortValues(rows, axis) ==
    IF rows = <<>> THEN <<>>
    ELSE InsertRow(SortValues(SubSeq(rows, 1, Len(rows) - 1), axis),
                   rows[Len(rows)], axis)

\* Variant of ScanColumn: the count starts from the x_faces already in the row.
ScanColumn_CarryOver(rows, axis, diff_col, face_col) ==
    LET srt  == SortValues(rows, axis)
        diff == [i \in DOMAIN srt |->
                    IF i = 1 THEN 0 ELSE srt[i][axis] - srt[i - 1][axis]]
        fcs  == IterRows([i \in DOMAIN srt |->
                             IF "x_faces" \in DOMAIN srt[i]
                             THEN srt[i]["x_faces"] ELSE 0], diff, 0)
    IN [i \in DOMAIN srt |->
           SetCol(SetCol(srt[i], face_col, fcs[i]), diff_col, diff[i])]

\* The body of the groupby loop for one column of voxels: the sorted rows
\* with face_col and diff_col set.
ScanColumn(rows, axis, diff_col, face_col) ==
    LET srt  == SortValues(rows, axis)
        diff == [i \in DOMAIN srt |->
                    IF i = 1 THEN 0 ELSE srt[i][axis] - srt[i - 1][axis]]
        fcs  == IterRows([i \in DOMAIN srt |-> 0], diff, 0)
    IN [i \in DOMAIN srt |->
           SetCol(SetCol(srt[i], face_col, fcs[i]), diff_col, diff[i])]

\* df.groupby(fixed_columns): the group keys in ascending (lexicographic) order.
KeyLeq(a, b) == a[1] < b[1] \/ (a[1] = b[1] /\ a[2] <= b[2])

RECURSIVE SortKeys(_)
SortKeys(S) ==
    IF S = {} THEN <<>>
    ELSE LET k == CHOOSE k \in S : \A o \in S : KeyLeq(k, o)
         IN <<k>> \o SortKeys(S \ {k})

GroupKeys(rows, fixed_columns) ==
    SortKeys({<<rows[i][fixed_columns[1]], rows[i][fixed_columns[2]]>> :
                 i \in DOMAIN rows})

GroupRows(rows, fixed_columns, key) ==
    SelectSeq(rows, LAMBDA r : r[fixed_columns[1]] = key[1]
                            /\ r[fixed_columns[2]] = key[2])

\* Variant of ScanGroups: each column replaces the rows scanned before it.
RECURSIVE ScanGroups_LastColumnOnly(_, _, _, _, _, _, _)
ScanGroups_LastColumnOnly(scanned, keys, df, axis, fixed_columns, diff_col, face_col) ==
    IF keys = <<>> THEN scanned
    ELSE LET locs_group == ScanColumn(GroupRows(df.rows, fixed_columns, Head(keys)),
                                      axis, diff_col, face_col)
             dropped == [i \in DOMAIN locs_group |-> DropCol(locs_group[i], diff_col)]
         IN ScanGroups_LastColumnOnly(DataFrame((df.cols \cup {face_col}), dropped),
                       Tail(keys), df, axis, fixed_columns, diff_col, face_col)

RECURSIVE ScanGroups(_, _, _, _, _, _, _)
ScanGroups(scanned, keys, df, axis, fixed_columns, diff_col, face_col) ==
    IF keys = <<>> THEN scanned
    ELSE LET locs_group == ScanColumn(GroupRows(df.rows, fixed_columns, Head(keys)),
                                      axis, diff_col, face_col)
             concat == scanned.rows \o locs_group
             dropped == [i \in DOMAIN concat |-> DropCol(concat[i], diff_col)]
         IN ScanGroups(DataFrame((df.cols \cup {face_col}), dropped),
                       Tail(keys), df, axis, fixed_columns, diff_col, face_col)

scan_faces_1d(df, axis, fixed_columns, diff_col, face_col) ==
    IF df.err # "none" THEN df
    ELSE IF ~(Range(fixed_columns) \subseteq df.cols) THEN Raise("KeyError")
    ELSE ScanGroups(EmptyFrame, GroupKeys(df.rows, fixed_columns),
                    df, axis, fixed_columns, diff_col, face_col)

scan_faces(df, axis) ==
    IF axis = "x_vox"
    THEN scan_faces_1d(df, axis, <<"y_vox", "z_vox">>, "x_diff", "x_faces")
    ELSE IF axis = "y_vox"
    THEN scan_faces_1d(df, axis, <<"x_vox", "z_vox">>, "y_diff", "y_faces")
    ELSE scan_faces_1d(df, axis, <<"x_vox", "y_vox">>, "z_diff", "z_faces")

scan_faces_all(df) ==
    scan_faces(scan_faces(scan_faces(df, "x_vox"), "y_vox"), "z_vox")

---------------------------------------------------------------------------
(* voxelutil.count_exposed_faces                                           *)

\* Variant of DropDuplicates: no row is dropped.
DropDuplicates_KeepAll(rows) == rows

\* locs_group[~locs_group.duplicated(subset=[x_vox, y_vox, z_vox])]:
\* the first row of every voxel triple is kept, in the original order.
RECURSIVE DropDuplicates(_)
DropDuplicates(rows) ==
    IF rows = <<>> THEN <<>>
    ELSE LET init == SubSeq(rows, 1, Len(rows) - 1)
             last == rows[Len(rows)]
         IN IF \E i \in DOMAIN init : Triple(init[i]) = Triple(last)
            THEN DropDuplicates(init)
            ELSE DropDuplicates(init) \o <<last>>

\* Lines 34-38: deduplicate, keep the voxel columns as integers, normalize.
\* astype('int') raises ValueError on a non-finite cell.
PrepareGrid(locs_group) ==
    IF ~(VoxCols \subseteq locs_group.cols) THEN Raise("KeyError")
    ELSE LET dedup == DropDuplicates(locs_group.rows)
         IN IF dedup # <<>> /\ locs_group.nonfinite \cap VoxCols # {}
            THEN Raise("ValueError")
            ELSE auto_origin_df(
                     DataFrame(VoxCols,
                               [i \in DOMAIN dedup |-> Project(dedup[i], VoxCols)]))

\* Variant of extract_surface: only voxels with all six faces exposed.
extract_surface_Isolated(df) == SelectSeq(df.rows, LAMBDA r : r["total_faces"] = 6)

extract_surface(df) == SelectSeq(df.rows, LAMBDA r : r["total_faces"] # 0)

extract_core(df) == SelectSeq(df.rows, LAMBDA r : r["total_faces"] = 0)

\* Variant of AddTotals: total_faces leaves out the z faces.
AddTotals_NoZ(scanned) ==
    IF scanned.err # "none" THEN scanned
    ELSE IF ~({"x_faces", "y_faces", "z_faces"} \subseteq scanned.cols)
    THEN Raise("KeyError")
    ELSE LET tot(r) == SetCol(SetCol(r,
                          "xy_faces", r["x_faces"] + r["y_faces"]),
                          "total_faces", r["x_faces"] + r["y_faces"])
         IN [scanned EXCEPT
                !.cols = @ \cup {"xy_faces", "total_faces"},
                !.rows = [i \in DOMAIN scanned.rows |-> tot(scanned.rows[i])]]

\* Lines 40-43: the scanned table with xy_faces and total_faces added.
AddTotals(scanned) ==
    IF scanned.err # "none" THEN scanned
    ELSE IF ~({"x_faces", "y_faces", "z_faces"} \subseteq scanned.cols)
    THEN Raise("KeyError")
    ELSE LET tot(r) == SetCol(SetCol(r,
                          "xy_faces", r["x_faces"] + r["y_faces"]),
                          "total_faces", r["x_faces"] + r["y_faces"] + r["z_faces"])
         IN [scanned EXCEPT
                !.cols = @ \cup {"xy_faces", "total_faces"},
                !.rows = [i \in DOMAIN scanned.rows |-> tot(scanned.rows[i])]]

\* Variant of Returned: every scanned voxel is counted as surface.
Returned_AllSurface(g, o) ==
    IF o.err # "none"
    THEN [err |-> o.err, grid |-> g, out_data |-> o,
          total_vox |-> 0, surf_vox |-> 0, xy_faces |-> 0, z_faces |-> 0]
    ELSE [err |-> "none", grid |-> g, out_data |-> o,
          total_vox |-> Len(o.rows),
          surf_vox |-> Len(o.rows),
          xy_faces |-> ColSum(o.rows, "xy_faces"),
          z_faces |-> ColSum(o.rows, "z_faces")]

\* Lines 45-50: the returned tuple, as a record that also keeps the
\* normalized grid `g` the scan ran on; `o` is out_data.
Returned(g, o) ==
    IF o.err # "none"
    THEN [err |-> o.err, grid |-> g, out_data |-> o,
          total_vox |-> 0, surf_vox |-> 0, xy_faces |-> 0, z_faces |-> 0]
    ELSE [err |-> "none", grid |-> g, out_data |-> o,
          total_vox |-> Len(o.rows),
          surf_vox |-> Len(extract_surface(o)),
          xy_faces |-> ColSum(o.rows, "xy_faces"),
          z_faces |-> ColSum(o.rows, "z_faces")]

ScanGrid(g) == Returned(g, IF g.err # "none" THEN g ELSE AddTotals(scan_faces_all(g)))

count_exposed_faces(locs_group) == ScanGrid(PrepareGrid(locs_group))

---------------------------------------------------------------------------
(* analyze.analyze_clusters                                                *)

RECURSIVE SortInts(_)
SortInts(S) ==
    IF S = {} THEN <<>>
    ELSE LET m == CHOOSE m \in S : \A o \in S : m <= o
         IN <<m>> \o SortInts(S \ {m})

Last(s) == s[Len(s)]

\* df.groupby(col): the distinct values of col, ascending.
GroupValues(rows, col) == SortInts({rows[i][col] : i \in DOMAIN rows})

GroupBy(df, col, v) ==
    [df EXCEPT !.rows = SelectSeq(df.rows, LAMBDA r : r[col] = v)]

\* Lines 155-158: the running totals after one sub-group's call returned c.
AddSubGroup(acc, c) ==
    [err |-> c.err,
     total_vox |-> acc.total_vox + c.total_vox,
     total_surf_vox |-> acc.total_surf_vox + c.surf_vox,
     total_xy_faces |-> acc.total_xy_faces + c.xy_faces,
     total_z_faces |-> acc.total_z_faces + c.z_faces]

\* Variant of SumSubGroups: the whole cluster is scanned as one grid.
SumSubGroups_WholeCluster(acc, locs_group, subs) ==
    IF subs = <<>> THEN acc
    ELSE AddSubGroup(acc, count_exposed_faces(locs_group))

\* The inner loop over the hdbscan sub-groups of one id (lines 147-158).
RECURSIVE SumSubGroups(_, _, _)
SumSubGroups(acc, locs_group, subs) ==
    IF subs = <<>> \/ acc.err # "none" THEN acc
    ELSE SumSubGroups(
             AddSubGroup(acc, count_exposed_faces(
                                  GroupBy(locs_group, "hdbscan", Head(subs)))),
             locs_group, Tail(subs))

ZeroTotals ==
    [err |-> "none", total_vox |-> 0, total_surf_vox |-> 0,
     total_xy_faces |-> 0, total_z_faces |-> 0]

\* Variant of ClusterRow: the face areas of the two terms are exchanged.
ClusterRow_SwappedAreas(t, n, i, bxy, bz) ==
    [err |-> t.err,
     id |-> i,
     total_locs |-> n,
     total_vox |-> t.total_vox,
     total_surf_vox |-> t.total_surf_vox,
     vol_vox |-> t.total_vox * (bxy * bxy) * bz,
     surf_area |-> t.total_xy_faces * (bxy * bxy) + t.total_z_faces * bxy * bz]

\* Variant of ClusterRow: the volume uses bin_xy once instead of squared.
ClusterRow_LinearVolume(t, n, i, bxy, bz) ==
    [err |-> t.err,
     id |-> i,
     total_locs |-> n,
     total_vox |-> t.total_vox,
     total_surf_vox |-> t.total_surf_vox,
     vol_vox |-> t.total_vox * bxy * bz,
     surf_area |-> t.total_xy_faces * bxy * bz + t.total_z_faces * (bxy * bxy)]

\* Lines 139-140 and 160-165: the values appended for one id, t the totals.
\* The centre of mass and the radius of gyration are added by
\* AnalyzeCluster.
ClusterRow(t, n, i, bxy, bz) ==
    [err |-> t.err,
     id |-> i,
     total_locs |-> n,
     total_vox |-> t.total_vox,
     total_surf_vox |-> t.total_surf_vox,
     vol_vox |-> t.total_vox * (bxy * bxy) * bz,
     surf_area |-> t.total_xy_faces * bxy * bz + t.total_z_faces * (bxy * bxy)]

\* calc_com: the mean of each coordinate, kept as the three sums and the
\* number of rows n they are divided by; for n = 0 the mean is NaN.
calc_com(locs_data) ==
    [sums |-> <<ColSum(locs_data.rows, "x_nm"), ColSum(locs_data.rows, "y_nm"),
                ColSum(locs_data.rows, "z")>>,
     n |-> Len(locs_data.rows)]

\* n^2 times the r^2 of row r about the centre of mass com.
ScaledR2(r, com) ==
    (com.n * r["x_nm"] - com.sums[1]) * (com.n * r["x_nm"] - com.sums[1])
    + (com.n * r["y_nm"] - com.sums[2]) * (com.n * r["y_nm"] - com.sums[2])
    + (com.n * r["z"] - com.sums[3]) * (com.n * r["z"] - com.sums[3])

\* The sum of the non-negative integers of s, kept as hi * 1000000 + lo with
\* 0 <= lo < 1000000 so that it stays within the integers TLC can hold.
SumWide(s) ==
    LET los == SumSeq([k \in DOMAIN s |-> s[k] % 1000000])
    IN [hi |-> SumSeq([k \in DOMAIN s |-> s[k] \div 1000000]) + (los \div 1000000),
        lo |-> los % 1000000]

\* gyration_radius: sqrt(sum of r^2 / data.shape[0]), kept as the operands
\* num / den of the quotient under the root, with the n^2 of the mean moved
\* into den; den = 0 is the division by zero rows.
gyration_radius(locs_data, com) ==
    [num |-> SumWide([k \in DOMAIN locs_data.rows |-> ScaledR2(locs_data.rows[k], com)]),
     den |-> com.n * com.n * Len(locs_data.rows)]

\* Lines 142-145 and 167: the centre of mass and the radius of gyration
\* appended for one id.
ComAndRg(locs_group, com) ==
    [com |-> com, rg |-> gyration_radius(locs_group, com)]

\* One iteration of the loop over ids (lines 137-167).
AnalyzeCluster(locs_group, i, bxy, bz) ==
    ClusterRow(SumSubGroups(ZeroTotals, locs_group,
                            GroupValues(locs_group.rows, "hdbscan")),
               Len(locs_group.rows), i, bxy, bz)
        @@ ComAndRg(locs_group, calc_com(locs_group))

\* The table built from the per-id rows, or the first exception raised.
RetDf(rws) ==
    IF \E k \in DOMAIN rws : rws[k].err # "none"
    THEN [err |-> rws[CHOOSE k \in DOMAIN rws :
                         /\ rws[k].err # "none"
                         /\ \A j \in DOMAIN rws : rws[j].err # "none" => k <= j].err,
          rows |-> <<>>]
    ELSE [err |-> "none", rows |-> rws]

RECURSIVE ClusterRows(_, _, _, _)
ClusterRows(df, ids, bxy, bz) ==
    IF ids = <<>> THEN <<>>
    ELSE <<AnalyzeCluster(GroupBy(df, "id", Head(ids)), Head(ids), bxy, bz)>>
         \o ClusterRows(df, Tail(ids), bxy, bz)

\* Variant of analyze_clusters: every id from 0 to the largest is visited,
\* whether or not a row carries it.
analyze_clusters_EveryId(df, bxy, bz) ==
    RetDf(ClusterRows(df,
                      IF df.rows = <<>> THEN <<>>
                      ELSE [k \in 1..(Last(GroupValues(df.rows, "id")) + 1) |-> k - 1],
                      bxy, bz))

analyze_clusters(df, bxy, bz) ==
    RetDf(ClusterRows(df, GroupValues(df.rows, "id"), bxy, bz))

---------------------------------------------------------------------------
(* voxelscan.voxel_scan                                                    *)

\* A range that includes its upper bound.
RECURSIVE RangeSeq_Inclusive(_, _, _)
RangeSeq_Inclusive(a, b, st) ==
    IF (st > 0 /\ a <= b) \/ (st < 0 /\ a >= b)
    THEN <<a>> \o RangeSeq_Inclusive(a + st, b, st)
    ELSE <<>>

\* range(bin_min, bin_max, step) for step # 0.
RECURSIVE RangeSeq(_, _, _)
RangeSeq(a, b, st) ==
    IF (st > 0 /\ a < b) \/ (st < 0 /\ a > b)
    THEN <<a>> \o RangeSeq(a + st, b, st)
    ELSE <<>>

EmptyCurve ==
    [err |-> "none", bin_list |-> <<>>, vol_list |-> <<>>, surf_list |-> <<>>,
     stov_list |-> <<>>, core_ratio_list |-> <<>>]

RaiseCurve(e) == [EmptyCurve EXCEPT !.err = e]

\* Lines 181-190 for one bin, c being what count_exposed_faces returned.
\* The real-valued quotients are kept as their operands: s_to_v as
\* (total_surf, total_vol), the core ratio as (total_vox - surf_vox, total_vox).
\* The integer division by total_vox = 0 raises ZeroDivisionError.
AppendSample(acc, bin, c) ==
    IF c.err # "none" THEN RaiseCurve(c.err)
    ELSE IF c.total_vox = 0 THEN RaiseCurve("ZeroDivisionError")
    ELSE [err |-> "none",
          bin_list |-> Append(acc.bin_list, bin),
          vol_list |-> Append(acc.vol_list, c.total_vox * (bin * bin * bin)),
          surf_list |-> Append(acc.surf_list, (c.xy_faces + c.z_faces) * (bin * bin)),
          stov_list |-> Append(acc.stov_list,
                               <<(c.xy_faces + c.z_faces) * (bin * bin),
                                 c.total_vox * (bin * bin * bin)>>),
          core_ratio_list |-> Append(acc.core_ratio_list,
                                     <<c.total_vox - c.surf_vox, c.total_vox>>)]

\* The loop of lines 176-192 over the remaining bins.
RECURSIVE ScanBins(_, _, _)
ScanBins(acc, locs_group, bins) ==
    IF bins = <<>> \/ acc.err # "none" THEN acc
    ELSE ScanBins(AppendSample(acc, Head(bins),
                               count_exposed_faces(
                                   voxelize(locs_group, Head(bins), Head(bins)))),
                  locs_group, Tail(bins))

\* range() raises ValueError for a step of 0.
voxel_scan(locs_group, bin_min, bin_max, step) ==
    IF step = 0 THEN RaiseCurve("ValueError")
    ELSE ScanBins(EmptyCurve, locs_group, RangeSeq(bin_min, bin_max, step))

---------------------------------------------------------------------------
(* voxelscan._analyze_vox                                                  *)

\* What lu.fit_sigmoid(bin_list, core_ratio_list) can do: max() of an empty
\* list raises ValueError; otherwise the least-squares solver returns popt
\* or raises RuntimeError when it does not converge.  With fewer samples
\* than the three parameters of the sigmoid, curve_fit of some SciPy
\* releases raises TypeError instead.
FitOutcomes(bin_list) ==
    IF bin_list = <<>> THEN {"ValueError"}
    ELSE IF Len(bin_list) < 3 THEN {"ok", "RuntimeError", "TypeError"}
    ELSE {"ok", "RuntimeError"}

\* The nine lists of lines 125-133, the ids still to visit, the number of
\* fit_sigmoid calls made, and the exception that ended the function.
EmptyLists(ids) ==
    [todo |-> ids, id |-> <<>>, total_locs |-> <<>>, clusters |-> <<>>,
     vox_bins |-> <<>>, total_vol |-> <<>>, total_surf |-> <<>>,
     s_to_v |-> <<>>, core_ratios |-> <<>>, sigmoid_params |-> <<>>,
     fits |-> 0, err |-> "none", table |-> <<>>]

\* Lines 141-150: the lists after the sweep of cluster i returned cv.
\* int2str joins the items of a list; the list itself is recorded.
AppendCluster(r, i, locs_group, cv) ==
    [r EXCEPT !.todo = Tail(@),
              !.id = Append(@, i),
              !.total_locs = Append(@, Len(locs_group.rows)),
              !.clusters = Append(@, Cardinality({locs_group.rows[k]["hdbscan"] :
                                                     k \in DOMAIN locs_group.rows})),
              !.vox_bins = Append(@, cv.bin_list),
              !.total_vol = Append(@, cv.vol_list),
              !.total_surf = Append(@, cv.surf_list),
              !.s_to_v = Append(@, cv.stov_list),
              !.core_ratios = Append(@, cv.core_ratio_list)]

\* Lines 152-157: the lists after fit_sigmoid ended with `outcome`.  popt is
\* recorded as the cluster it was fitted for.
AfterFit(r, i, outcome) ==
    IF outcome = "ok"
    THEN [r EXCEPT !.fits = @ + 1, !.sigmoid_params = Append(@, [cluster |-> i])]
    ELSE IF outcome = "RuntimeError"
    THEN [r EXCEPT !.fits = @ + 1]
    ELSE [r EXCEPT !.fits = @ + 1, !.err = outcome]

\* One iteration of the loop of line 135 for a cluster that passes the cutoff.
ClusterStep(r, i, locs_group, cv, outcome) ==
    IF cv.err # "none"
    THEN [r EXCEPT !.todo = Tail(@), !.id = Append(@, i),
                   !.total_locs = Append(@, Len(locs_group.rows)),
                   !.clusters = Append(@, Cardinality({locs_group.rows[k]["hdbscan"] :
                                                          k \in DOMAIN locs_group.rows})),
                   !.err = cv.err]
    ELSE AfterFit(AppendCluster(r, i, locs_group, cv), i, outcome)

ListLengths(r) ==
    {Len(r.id), Len(r.total_locs), Len(r.clusters), Len(r.vox_bins),
     Len(r.total_vol), Len(r.total_surf), Len(r.s_to_v), Len(r.core_ratios),
     Len(r.sigmoid_params)}

\* Lines 159-163: pd.DataFrame(data={...}) raises ValueError when the lists
\* differ in length.
RetTable(r) ==
    IF Cardinality(ListLengths(r)) > 1 THEN [r EXCEPT !.err = "ValueError"]
    ELSE [r EXCEPT !.table =
             [k \in DOMAIN r.id |->
                 [id |-> r.id[k], total_locs |-> r.total_locs[k],
                  clusters |-> r.clusters[k], vox_bins |-> r.vox_bins[k],
                  total_vol |-> r.total_vol[k], total_surf |-> r.total_surf[k],
                  s_to_v |-> r.s_to_v[k], core_ratios |-> r.core_ratios[k],
                  sigmoid_params |-> r.sigmoid_params[k]]]]

---------------------------------------------------------------------------
(* The caller's table across a call: which object an in-place assignment  *)
(* writes.                                                                 *)

\* On entry the parameter names the caller's object.
Entry(df) == [caller |-> df, local |-> df, alias |-> TRUE]

\* Variant of Rebind: the result is a view that shares the caller's object.
Rebind_View(st, df) == [caller |-> st.caller, local |-> df, alias |-> st.alias]

\* df[mask], df[[cols]], astype(), copy() and groupby return a new object,
\* to which the local name is bound.
Rebind(st, df) == [caller |-> st.caller, local |-> df, alias |-> FALSE]

\* df[col] = value, or a callee's in-place writes, through the local name:
\* the object it names becomes df.
WriteLocal(st, df) ==
    IF st.alias THEN [st EXCEPT !.caller = df, !.local = df]
    ELSE [st EXCEPT !.local = df]

\* voxelize, lines 304-310: the copy is written, the argument is not.
VoxelizeStore(locs_data, bxy, bz) ==
    WriteLocal(Rebind(Entry(locs_data), locs_data), voxelize(locs_data, bxy, bz))

\* Line 37: the voxel columns of the rows, a new table.
VoxelColumns(rows) ==
    DataFrame(VoxCols, [i \in DOMAIN rows |-> Project(rows[i], VoxCols)])

\* count_exposed_faces, lines 34-38, where the prepared table is grid: the
\* deduplicated integer table is a new object and auto_origin_df assigns
\* its columns in place.  An exception of lines 34-37 is raised before
\* anything is written.
CountStoreOf(locs_group, grid) ==
    IF grid.err # "none" THEN Entry(locs_group)
    ELSE WriteLocal(Rebind(Entry(locs_group),
                           VoxelColumns(DropDuplicates(locs_group.rows))),
                    grid)

CountStore(locs_group) == CountStoreOf(locs_group, PrepareGrid(locs_group))

\* calc_com only reads its argument.
ComStore(locs_data) == Entry(locs_data)

\* gyration_radius, lines 259-263: the column r^2 is added to a copy.
GyrationStore(locs_data) ==
    WriteLocal(Rebind(Entry(locs_data), locs_data),
               [locs_data EXCEPT !.cols = @ \cup {"r^2"}])

\* voxel_scan, lines 176-178 for one bin: data = locs.copy(), data =
\* lu.voxelize(data, bin, bin), lu.count_exposed_faces(data), where
\* voxelize returns voxelized.
BinStoreOf(locs_data, bin, voxelized) ==
    WriteLocal(
        Rebind(WriteLocal(Rebind(Entry(locs_data), locs_data),
                          VoxelizeStore(locs_data, bin, bin).caller),
               voxelized),
        CountStore(voxelized).caller)

BinStore(locs_data, bin) == BinStoreOf(locs_data, bin, voxelize(locs_data, bin, bin))

\* The caller's table after the loop of voxel_scan over the bins.
RECURSIVE ScanCaller(_, _)
ScanCaller(locs_data, bins) ==
    IF bins = <<>> THEN locs_data
    ELSE ScanCaller(BinStore(locs_data, Head(bins)).caller, Tail(bins))

---------------------------------------------------------------------------
(* Input tables.                                                           *)

LocCols == {"x_nm", "y_nm", "z", "id", "hdbscan"}

Loc(x, y, z, i, h) == [x_nm |-> x, y_nm |-> y, z |-> z, id |-> i, hdbscan |-> h]

\* Localizations the point tables are drawn from.
Universe ==
    { Loc(-1, 0, 0, 0, 0),  Loc(0, 0, 0, 0, 0),   Loc(10, 0, 0, 0, 0),
      Loc(20, 0, 0, 0, 0),  Loc(50, 0, 0, 0, 0),  Loc(0, 16, 0, 0, 0),
      Loc(10, 0, -20, 0, 1), Loc(20, 35, 0, 1, 0) }

RECURSIVE SeqsUpTo(_, _)
SeqsUpTo(S, n) ==
    IF n = 0 THEN {<<>>}
    ELSE LET shorter == SeqsUpTo(S, n - 1)
         IN shorter \cup {Append(s, x) : s \in {t \in shorter : Len(t) = n - 1}, x \in S}

PointTables == SeqsUpTo(Universe, MaxPts)

\* The points of the end-to-end example of the specification.
ExampleTable == <<Loc(0, 0, 0, 0, 0), Loc(10, 0, 0, 0, 0), Loc(20, 0, 0, 0, 0)>>

ValidBins == {<<15, 15>>, <<10, 20>>}

BadBins == {<<0, 15>>, <<15, 0>>, <<-15, 15>>, <<15, -15>>, <<-15, -15>>}

BadBinTables == {ExampleTable} \cup {<<p>> : p \in Universe}

\* One localization inside every voxel of an a x b x c block of voxels whose
\* lowest voxel has index off on every axis; row n enumerates x fastest.
CuboidRows(a, b, c, off, bxy, bz) ==
    [n \in 1..(a * b * c) |->
        Loc((((n - 1) % a) + off) * bxy + 1,
            ((((n - 1) \div a) % b) + off) * bxy + 1,
            (((n - 1) \div (a * b)) + off) * bz + 1,
            0, 0)]

Sides == 3..MaxSide

Offsets == {-2, 0}

RECURSIVE SubsetsUpTo(_, _)
SubsetsUpTo(S, k) ==
    IF k = 0 THEN {{}}
    ELSE LET smaller == SubsetsUpTo(S, k - 1)
         IN smaller \cup {T \cup {x} : T \in smaller, x \in S}

\* The rows of a 3 x 3 x 3 block that may be left out: two opposite corners,
\* two edge voxels, three face centres and the body centre, with neighbours
\* along each of the three axes among them.
HoleSites == {1, 2, 5, 11, 13, 14, 23, 27}

\* A 3 x 3 x 3 block with between 1 and MaxHoles voxels left empty.
HoledCubes(off, bxy, bz) ==
    LET full == CuboidRows(3, 3, 3, off, bxy, bz)
    IN {SelectSeq(full, LAMBDA r : r \notin H) :
           H \in SubsetsUpTo({full[n] : n \in HoleSites}, MaxHoles) \ {{}}}

\* Localizations of the sweep tables: two ids, the first in two sub-groups
\* that lie apart (-30) or together (5) depending on the point drawn.
SweepUniverse ==
    { Loc(0, 0, 0, 1, 0), Loc(20, 0, 0, 1, 0), Loc(-30, 0, 0, 1, 1),
      Loc(5, 0, 0, 1, 1), Loc(40, 16, 0, 2, 0) }

SweepTables == SeqsUpTo(SweepUniverse, MaxPts)

LocsFrame(rows) == DataFrame(LocCols, rows)

NotCalled == [err |-> "not called"]

---------------------------------------------------------------------------
(* decode.decode_ids and decode.count_mask_overlap                         *)

MaxMasks == 2

\* What astype('uint32') does with a negative float: pandas from 1.5 on
\* raises ValueError; before, the cast is numpy's, which drops the fraction
\* and, for a value of -1 or less, is undefined in C: it wraps modulo 2^32
\* on x86-64 and gives 0 where the conversion saturates.
CastModes == {"raise", "wrap", "saturate"}

\* The uint32 n, 0 <= n < 2^31, as hi * 65536 + lo.
Uint32(n) == [err |-> "none", hi |-> n \div 65536, lo |-> n % 65536]

\* Pixel coordinates are kept in tenths of a pixel; the cast drops the
\* fraction toward zero.  A uint32 is kept as hi * 65536 + lo, which holds
\* the values wrapped from below zero.
ToUint32(t, cast) ==
    IF t >= 0 THEN Uint32(t \div 10)
    ELSE IF cast = "raise" THEN [err |-> "ValueError"]
    ELSE IF cast = "saturate" \/ (-t) \div 10 = 0 THEN Uint32(0)
    ELSE [err |-> "none",
          hi |-> 65536 + ((-((-t) \div 10)) \div 65536),
          lo |-> (-((-t) \div 10)) % 65536]

\* A uint32 as an index: an index of 2^31 or more is beyond every image and
\* is passed as the largest integer.
AsIndex(u) == IF u.hi < 32768 THEN u.hi * 65536 + u.lo ELSE 2147483647

\* numpy indexing along an axis of `size` entries: a negative index counts
\* from the end.
NpIndex(i, size) == IF i < 0 THEN i + size ELSE i

\* Lines 183-188: image[coordinate[1], coordinate[0]], or 0 after the
\* IndexError of an index outside -size..size-1.  Images are sequences of
\* rows; numpy indices start at 0.
get_pixel_val(image, coordinate) ==
    IF NpIndex(coordinate[2], Len(image)) \notin 0..(Len(image) - 1) THEN 0
    ELSE IF NpIndex(coordinate[1], Len(image[1])) \notin 0..(Len(image[1]) - 1) THEN 0
    ELSE image[NpIndex(coordinate[2], Len(image)) + 1]
              [NpIndex(coordinate[1], Len(image[1])) + 1]

\* Lines 165-167; the masks of the list are numbered from 1 here.
get_mask_val(ms, slice, coordinate) == get_pixel_val(ms[slice], coordinate)

\* Line 323: cluster[['x', 'y']].astype('uint32'), row by row.
PixelOf(r, cast) == <<ToUint32(r["x"], cast), ToUint32(r["y"], cast)>>

\* The group `selected` of key in cluster.groupby(['x', 'y']).
Selected(cl, key, cast) == {k \in DOMAIN cl.rows : PixelOf(cl.rows[k], cast) = key}

\* The overlaps of lines 333-337 are IEEE-754 doubles (numpy float64).  A
\* double d >= 0 is kept as the integer d * 2^64, in five limbs of 16 bits,
\* least significant first; every double from 2^-11 up is such an integer.
Limb == 65536

DoubleZero == <<0, 0, 0, 0, 0>>

\* The limbs of the integer whose limbs, before carrying, are r.
Carry(r) ==
    LET c1 == r[1] \div Limb
        c2 == (r[2] + c1) \div Limb
        c3 == (r[3] + c2) \div Limb
        c4 == (r[4] + c3) \div Limb
    IN  <<r[1] % Limb, (r[2] + c1) % Limb, (r[3] + c2) % Limb,
          (r[4] + c3) % Limb, r[5] + c4>>

\* Bit i (from 0) of the integer f.
BitOf(f, i) == (f[(i \div 16) + 1] \div (2 ^ (i % 16))) % 2

\* The number of significant bits of the integer f.
BitLen(f) ==
    IF f[5] > 0 THEN 65 + CHOOSE k \in 0..30 : f[5] \div (2 ^ k) = 1
    ELSE IF f = DoubleZero THEN 0
    ELSE 1 + CHOOSE i \in 0..63 :
                 BitOf(f, i) = 1 /\ \A j \in (i + 1)..63 : BitOf(f, j) = 0

\* Round to nearest, ties to even, of the exact value f + (a fraction that
\* is non-zero exactly when sticky) to the 53 significant bits of a double.
RoundDouble(f, sticky) ==
    IF BitLen(f) <= 53 THEN f
    ELSE LET d == BitLen(f) - 53
             j == (d \div 16) + 1
             guard == BitOf(f, d - 1) = 1
             rest == sticky \/ \E i \in 0..(d - 2) : BitOf(f, i) = 1
             odd == BitOf(f, d) = 1
             kept == [i \in 1..5 |->
                         IF i < j THEN 0
                         ELSE IF i = j THEN f[i] - (f[i] % (2 ^ (d % 16)))
                         ELSE f[i]]
         IN  IF guard /\ (rest \/ odd)
             THEN Carry([i \in 1..5 |->
                            IF i = j THEN kept[i] + 2 ^ (d % 16) ELSE kept[i]])
             ELSE kept

\* Line 333, get_mask_val(...) / 255: the double nearest to v / 255, by long
\* division of v * 2^64.
DivBy255(v) ==
    LET r4 == v % 255
        r3 == (r4 * Limb) % 255
        r2 == (r3 * Limb) % 255
        r1 == (r2 * Limb) % 255
        r0 == (r1 * Limb) % 255
    IN  RoundDouble(<<(r1 * Limb) \div 255, (r2 * Limb) \div 255,
                      (r3 * Limb) \div 255, (r4 * Limb) \div 255, v \div 255>>,
                    r0 # 0)

\* Line 333, ... * len(selected): the double nearest to f * n.
MulDouble(f, n) == RoundDouble(Carry([i \in 1..5 |-> f[i] * n]), FALSE)

\* One addition of the sum of line 337.
AddDouble(a, b) == RoundDouble(Carry([i \in 1..5 |-> a[i] + b[i]]), FALSE)

\* a < b of two doubles.
LessDouble(a, b) ==
    \E i \in 1..5 : a[i] < b[i] /\ \A j \in (i + 1)..5 : a[j] = b[j]

\* Line 292, len(cluster) / 2, which is exact.
HalfDouble(n) == Carry(<<0, 0, 0, n * 32768, 0>>)

\* The order in which groupby (sort=True) yields the keys: by x, then by y.
KeyBefore(a, b) ==
    \/ a[1].hi < b[1].hi
    \/ a[1].hi = b[1].hi /\ a[1].lo < b[1].lo
    \/ a[1] = b[1] /\ a[2].hi < b[2].hi
    \/ a[1] = b[1] /\ a[2].hi = b[2].hi /\ a[2].lo < b[2].lo

RECURSIVE PixelKeys(_)
PixelKeys(keys) ==
    IF keys = {} THEN <<>>
    ELSE <<CHOOSE k \in keys : \A o \in keys \ {k} : KeyBefore(k, o)>>
             \o PixelKeys(keys \ {CHOOSE k \in keys :
                                      \A o \in keys \ {k} : KeyBefore(k, o)})

\* acc + col[from + 1] + ... + col[from + n], added one after the other; the
\* sum of the first half is a value before the second half is added to it.
RECURSIVE AddRows(_, _, _, _)
AddRows(acc, col, from, n) ==
    IF n = 0 THEN acc
    ELSE IF n = 1 THEN AddDouble(acc, col[from + 1])
    ELSE CHOOSE r \in {AddRows(first, col, from + (n \div 2), n - (n \div 2)) :
                           first \in {AddRows(acc, col, from, n \div 2)}} : TRUE

\* The eight accumulators of numpy's pairwise sum over the first m values
\* (m a multiple of 8), combined in pairs: accumulator j is
\* col[from + j] + col[from + j + 8] + ..., added one after the other.
Lanes(col, from, m) ==
    LET Lane(j) ==
            AddRows(DoubleZero,
                    [t \in 1..(m \div 8) |-> col[from + j + 8 * (t - 1)]],
                    0, m \div 8)
    IN  AddDouble(AddDouble(AddDouble(Lane(1), Lane(2)),
                            AddDouble(Lane(3), Lane(4))),
                  AddDouble(AddDouble(Lane(5), Lane(6)),
                            AddDouble(Lane(7), Lane(8))))

\* numpy's pairwise sum of col[from + 1 .. from + n], which add.reduce uses
\* along a contiguous axis: below 8 values in order; up to 128 values with
\* eight accumulators and the remainder in order; above, the two halves.
RECURSIVE PairwiseSum(_, _, _)
PairwiseSum(col, from, n) ==
    IF n < 8 THEN AddRows(DoubleZero, col, from, n)
    ELSE IF n <= 128
    THEN AddRows(Lanes(col, from, n - (n % 8)), col, from + n - (n % 8), n % 8)
    ELSE AddDouble(
             PairwiseSum(col, from, (n \div 2) - ((n \div 2) % 8)),
             PairwiseSum(col, from + (n \div 2) - ((n \div 2) % 8),
                         n - ((n \div 2) - ((n \div 2) % 8))))

\* Line 337, mask_overlap.sum(axis=0), for the column col of one of n_masks
\* masks: with one mask the array is one contiguous column, which is summed
\* pairwise; with more, the rows are added one after the other.
SumGroups(col, n_masks) ==
    IF n_masks = 1 THEN PairwiseSum(col, 0, Len(col))
    ELSE AddRows(DoubleZero, col, 0, Len(col))

\* Lines 327-337 once the keys of the groups are known: for every mask i
\* the sum of its column, one value get_mask_val / 255 * len(selected) per
\* group, in the order of the groups.
OverlapOf(cl, ms, keys, cast) ==
    [i \in DOMAIN ms |->
        SumGroups(
            [g \in 1..Len(keys) |->
                MulDouble(DivBy255(get_mask_val(ms, i, <<AsIndex(keys[g][1]),
                                                         AsIndex(keys[g][2])>>)),
                          Cardinality(Selected(cl, keys[g], cast)))],
            Len(ms))]

\* Lines 323-337: the exception of the cast, or one overlap per mask.
count_mask_overlap(cl, ms, cast) ==
    IF \E k \in DOMAIN cl.rows :
           \/ ToUint32(cl.rows[k]["x"], cast).err # "none"
           \/ ToUint32(cl.rows[k]["y"], cast).err # "none"
    THEN [err |-> "ValueError"]
    ELSE [err |-> "none",
          overlap |->
              OverlapOf(cl, ms,
                        PixelKeys({PixelOf(cl.rows[k], cast) :
                                       k \in DOMAIN cl.rows}),
                        cast)]

SeqMax(s) == CHOOSE m \in Range(s) : \A v \in Range(s) : ~LessDouble(m, v)

Nan == [err |-> "none", kind |-> "nan"]

Id(i) == [err |-> "none", kind |-> "id", id |-> i]

\* Lines 294-305 once count_mask_overlap returned mask_overlap, whose
\* largest value is top.  max() of the empty array of an empty mask list
\* raises ValueError.  The index returned counts from 0.
DecodeTop(mask_overlap, top, n) ==
    IF top = DoubleZero THEN Nan
    ELSE IF LessDouble(top, HalfDouble(n)) THEN Nan
    ELSE IF Cardinality({i \in DOMAIN mask_overlap : mask_overlap[i] = top}) = 1
    THEN Id((CHOOSE i \in DOMAIN mask_overlap : mask_overlap[i] = top) - 1)
    ELSE Id(-1)

DecodeOverlap(mask_overlap, n) ==
    IF mask_overlap = <<>> THEN [err |-> "ValueError"]
    ELSE DecodeTop(mask_overlap, SeqMax(mask_overlap), n)

\* Lines 291-305, where the cast of line 323 behaves as `cast`.
DecodeCounted(counted_overlap, n) ==
    IF counted_overlap.err # "none" THEN [err |-> counted_overlap.err]
    ELSE DecodeOverlap(counted_overlap.overlap, n)

decode_ids(cl, ms, cast) ==
    DecodeCounted(count_mask_overlap(cl, ms, cast), Len(cl.rows))

\* Pixel images of 2 x 2.
Img(a, b, c, d) == <<<<a, b>>, <<c, d>>>>

\* Five binary masks (values 0 or 255) and two 8-bit images with other
\* values, which line 144 reads as well: over pixels (0, 0) and (1, 0) the
\* last two have the same exact overlap, 261 / 255, and different doubles.
MaskImages ==
    { Img(0, 0, 0, 0), Img(255, 0, 0, 0), Img(0, 255, 0, 0),
      Img(255, 255, 0, 0), Img(0, 0, 255, 0),
      Img(6, 255, 0, 0), Img(9, 252, 0, 0) }

MaskLists == SeqsUpTo(MaskImages, MaxMasks) \ {<<>>}

PixCols == {"x", "y"}

Pix(x, y) == [x |-> x, y |-> y]

\* Localizations of the clusters, in tenths of a pixel: two in pixel (0, 0),
\* one in (1, 0), one in (0, 1), one beyond the images and two left of them.
PixUniverse ==
    { Pix(0, 0), Pix(5, 3), Pix(17, 0), Pix(0, 10), Pix(30, 0),
      Pix(-5, 0), Pix(-15, 0) }

Clusters == SeqsUpTo(PixUniverse, MaxPts) \ {<<>>}

\* An 8-bit image of one row whose eight pixels have the exact sum 4 * 255,
\* and a cluster with one localization in each of these pixels: the sum of
\* the eight doubles is 4.0 when added pairwise and just below 4.0 when
\* added in order.
WideImage == <<<<204, 85, 170, 102, 102, 85, 102, 170>>>>

WideRows == [k \in 1..8 |-> Pix(10 * (k - 1), 0)]

DecodeIdle ==
    /\ cluster = EmptyFrame
    /\ masks = <<>>
    /\ decoded = NotCalled

---------------------------------------------------------------------------
(* concatenate.main, concatenate.concat_z, locsutil.read_locs and          *)
(* locsutil.clean_locs                                                     *)

MaxFiles == 3

\* The thresholds that switch a filter of clean_locs off: 0.0, 0.0, -9999.9,
\* 9999.9 and -1.  min_z and max_z are kept in tenths of a nanometre.
MinZOff == -99999

MaxZOff == 99999

\* Lines 49-54 of locsutil.py: the stored table sorted by frame, reindexed.
read_locs(locs_file) == [locs_file EXCEPT !.rows = SortValues(@, "frame")]

\* Lines 191-209 of locsutil.py.
clean_locs(locs_data, max_dzcalib, max_lp, min_z, max_z, max_photon) ==
    LET d1 == IF max_dzcalib # 0
              THEN SelectSeq(locs_data.rows, LAMBDA r : r["d_zcalib"] <= max_dzcalib)
              ELSE locs_data.rows
        d2 == IF max_lp # 0
              THEN SelectSeq(SelectSeq(d1, LAMBDA r : r["lpx"] <= max_lp),
                             LAMBDA r : r["lpy"] <= max_lp)
              ELSE d1
        d3 == IF min_z # MinZOff
              THEN SelectSeq(d2, LAMBDA r : 10 * r["z"] >= min_z)
              ELSE d2
        d4 == IF max_z # MaxZOff
              THEN SelectSeq(d3, LAMBDA r : 10 * r["z"] <= max_z)
              ELSE d3
    IN [locs_data EXCEPT !.rows =
           IF max_photon # -1
           THEN SelectSeq(d4, LAMBDA r : r["photons"] <= max_photon)
           ELSE d4]

\* Variant of concat_z: the next section starts at the last frame itself.
concat_z_NoGap(df1, df2, frame_offset, z_offset) ==
    IF df2.rows = <<>> THEN [err |-> "IndexError"]
    ELSE [err |-> "none",
          data_out |->
              DataFrame(df2.cols,
                  df1.rows \o
                  [i \in DOMAIN df2.rows |->
                      [df2.rows[i] EXCEPT !["frame"] = @ + frame_offset,
                                          !["z"] = @ + z_offset]]),
          last_frame |-> Last(df2.rows)["frame"]]

\* Lines 109-124 of concatenate.py: iloc[-1] of an empty table raises
\* IndexError; otherwise the rows of df1 followed by the rows of df2 with
\* frame and z moved, and the last frame of df2 plus one.
concat_z(df1, df2, frame_offset, z_offset) ==
    IF df2.rows = <<>> THEN [err |-> "IndexError"]
    ELSE [err |-> "none",
          data_out |->
              DataFrame(df2.cols,
                  df1.rows \o
                  [i \in DOMAIN df2.rows |->
                      [df2.rows[i] EXCEPT !["frame"] = @ + frame_offset,
                                          !["z"] = @ + z_offset]]),
          last_frame |-> Last(df2.rows)["frame"] + 1]

\* Lines 87-88 of concatenate.py: the table concat_z receives for a file.
Cleaned(locs_file, a) ==
    clean_locs(read_locs(locs_file), a.max_dzcalib, a.max_lp, a.min_z, a.max_z,
               a.max_photons)

FrameCols == {"frame", "z", "d_zcalib", "lpx", "lpy", "photons"}

Frm(f, z, d, lx, ly, p) ==
    [frame |-> f, z |-> z, d_zcalib |-> d, lpx |-> lx, lpy |-> ly, photons |-> p]

\* Stored files: one localization at frame 0, tables stored out of frame
\* order, and localizations that the filters of clean_locs drop.
StoredRows ==
    { <<Frm(0, 10, 1, 1, 1, 100)>>,
      <<Frm(3, -5, 5, 1, 3, 100)>>,
      <<Frm(3, -5, 5, 1, 3, 100), Frm(0, 10, 1, 1, 1, 100)>>,
      <<Frm(0, 10, 1, 1, 1, 100), Frm(7, 0, 1, 3, 1, 900)>>,
      <<Frm(7, 0, 1, 3, 1, 900), Frm(3, -5, 5, 1, 3, 100), Frm(0, 10, 1, 1, 1, 100)>> }

StoredFiles == {DataFrame(FrameCols, rows) : rows \in StoredRows}

\* The directory holds between 0 and MaxFiles files.
FileLists == SeqsUpTo(StoredFiles, MaxFiles)

\* The first *.yaml file of the directory: none, or the rows it holds.
NoYaml == [exists |-> FALSE, rows |-> <<>>]

Yaml(rows) == [exists |-> TRUE, rows |-> rows]

Yamls ==
    { NoYaml,
      Yaml([Frames |-> 100, Height |-> 64, Width |-> 64]),
      Yaml([Height |-> 64, Width |-> 64]) }

\* Lines 114-129 of locsutil.py: the three values, or None when a row is
\* missing (the UnboundLocalError is caught and nothing is returned).
read_yaml(yaml_file) ==
    IF {"Frames", "Height", "Width"} \subseteq DOMAIN yaml_file.rows
    THEN [none |-> FALSE, frames |-> yaml_file.rows["Frames"],
          height |-> yaml_file.rows["Height"], width |-> yaml_file.rows["Width"]]
    ELSE [none |-> TRUE]

\* Lines 72-93 of locsutil.py: KeyError for a table without the column
\* frame; otherwise the table is written.  The frames, read from uint32 and
\* moved up, and the other values, far below 2^24, pass the casts to uint32
\* and float32 unchanged.
write_locs(locs_data) ==
    IF "frame" \notin locs_data.cols THEN [err |-> "KeyError"]
    ELSE [err |-> "none", locs |-> locs_data.rows]

\* Lines 95-106 of concatenate.py: glob('*.yaml')[0] raises IndexError
\* without a yaml file, unpacking None raises TypeError, write_locs may
\* raise; otherwise the table and the yaml with the frames of all files are
\* written.
WriteFiles(files, out, yaml_in) ==
    IF ~yaml_in.exists THEN [err |-> "IndexError"]
    ELSE IF read_yaml(yaml_in).none THEN [err |-> "TypeError"]
    ELSE IF write_locs(out).err # "none" THEN [err |-> write_locs(out).err]
    ELSE [err |-> "none",
          locs |-> write_locs(out).locs,
          yaml |-> [Frames |-> read_yaml(yaml_in).frames * Len(files),
                    Height |-> read_yaml(yaml_in).height,
                    Width |-> read_yaml(yaml_in).width]]

ZSteps == {50, -20}

CleanArgs ==
    { [max_dzcalib |-> 0, max_lp |-> 0, min_z |-> MinZOff, max_z |-> MaxZOff, max_photons |-> -1],
      [max_dzcalib |-> 2, max_lp |-> 2, min_z |-> MinZOff, max_z |-> MaxZOff, max_photons |-> -1],
      [max_dzcalib |-> 0, max_lp |-> 0, min_z |-> -50, max_z |-> 100, max_photons |-> 500] }

NoArgs == [z_step |-> 0]

ConcatIdle ==
    /\ hdf5_list = <<>>
    /\ args = NoArgs
    /\ outdata = EmptyFrame
    /\ off_val = 0
    /\ z_val = 0
    /\ item = 0
    /\ yaml = NoYaml
    /\ written = NotCalled

---------------------------------------------------------------------------
(* The pipeline of analyze.analyze_data and of one bin of voxel_scan.      *)

NoSweep == [bin_min |-> 0, bin_max |-> 0, step |-> 0, cutoff |-> 0]

Idle ==
    /\ pc = "start"
    /\ data = EmptyFrame
    /\ counted = NotCalled
    /\ analyzed = NotCalled
    /\ sweep = NoSweep
    /\ curve = NotCalled
    /\ ret = NotCalled
    /\ DecodeIdle
    /\ ConcatIdle

InitPoints ==
    /\ \E t \in PointTables : locs = LocsFrame(t)
    /\ \E b \in ValidBins : bin_xy = b[1] /\ bin_z = b[2]

InitBadBins ==
    /\ \E t \in BadBinTables : locs = LocsFrame(t)
    /\ \E b \in BadBins : bin_xy = b[1] /\ bin_z = b[2]

InitCuboid ==
    \E b \in ValidBins, off \in Offsets :
        /\ bin_xy = b[1]
        /\ bin_z = b[2]
        /\ \/ \E a0 \in Sides, b0 \in Sides, c0 \in Sides :
                 locs = LocsFrame(CuboidRows(a0, b0, c0, off, b[1], b[2]))
           \/ \E t \in HoledCubes(off, b[1], b[2]) : locs = LocsFrame(t)

\* Tables of two clusters, the first in sub-groups that can share a voxel.
InitSubGroups ==
    /\ \E t \in SweepTables : locs = LocsFrame(t)
    /\ \E b \in ValidBins : bin_xy = b[1] /\ bin_z = b[2]

Init ==
    /\ InitPoints \/ InitBadBins \/ InitCuboid \/ InitSubGroups
    /\ Idle

\* data = lu.voxelize(data, bin_xy, bin_z)
Voxelize ==
    /\ pc = "start"
    /\ data' = voxelize(locs, bin_xy, bin_z)
    /\ pc' = "voxelized"
    /\ UNCHANGED <<locs, bin_xy, bin_z, counted, analyzed, sweep, curve, ret, decodeVars, concatVars>>

\* calculated, total_vox, surf_vox, xy_faces, z_faces = lu.count_exposed_faces(data)
CountExposedFaces ==
    /\ pc = "voxelized"
    /\ counted' = count_exposed_faces(data)
    /\ data' = CountStore(data).caller
    /\ pc' = IF counted'.err = "none" THEN "counted" ELSE "failed"
    /\ UNCHANGED <<locs, bin_xy, bin_z, analyzed, sweep, curve, ret, decodeVars, concatVars>>

\* analyzed = analyze_clusters(data, bin_xy, bin_z)
AnalyzeClusters ==
    /\ pc = "voxelized"
    /\ analyzed' = analyze_clusters(data, bin_xy, bin_z)
    /\ pc' = IF analyzed'.err = "none" THEN "analyzed" ELSE "failed"
    /\ UNCHANGED <<locs, bin_xy, bin_z, data, counted, sweep, curve, ret, decodeVars, concatVars>>

Next == Voxelize \/ CountExposedFaces \/ AnalyzeClusters

Spec == Init /\ [][Next]_vars

---------------------------------------------------------------------------
(* voxelscan._analyze_vox run on one table over one bin sweep.             *)

BinMins == {10, 20}

BinMaxs == {10, 20, 25}

Steps == {-5, 0, 5}

Cutoffs == {1, 2}

InitSweep ==
    /\ \E t \in SweepTables : locs = LocsFrame(t)
    /\ \E lo \in BinMins, hi \in BinMaxs, st \in Steps, co \in Cutoffs :
           sweep = [bin_min |-> lo, bin_max |-> hi, step |-> st, cutoff |-> co]
    /\ bin_xy = 0
    /\ bin_z = 0
    /\ pc = "vox_loop"
    /\ data = EmptyFrame
    /\ counted = NotCalled
    /\ analyzed = NotCalled
    /\ curve = NotCalled
    /\ ret = EmptyLists(GroupValues(locs.rows, "id"))
    /\ DecodeIdle
    /\ ConcatIdle

\* Variant of SkipCluster: a cluster with exactly `cutoff` localizations may
\* be skipped as well.
SkipCluster_AtCutoff ==
    /\ pc = "vox_loop"
    /\ ret.todo # <<>>
    /\ Len(GroupBy(locs, "id", Head(ret.todo)).rows) <= sweep.cutoff
    /\ ret' = [ret EXCEPT !.todo = Tail(@)]
    /\ UNCHANGED <<locs, bin_xy, bin_z, pc, data, counted, analyzed, sweep, curve, decodeVars, concatVars>>

\* Lines 137-138: a cluster with fewer localizations than the cutoff.
SkipCluster ==
    /\ pc = "vox_loop"
    /\ ret.todo # <<>>
    /\ Len(GroupBy(locs, "id", Head(ret.todo)).rows) < sweep.cutoff
    /\ ret' = [ret EXCEPT !.todo = Tail(@)]
    /\ UNCHANGED <<locs, bin_xy, bin_z, pc, data, counted, analyzed, sweep, curve, decodeVars, concatVars>>

\* Lines 140-157: voxel_scan and fit_sigmoid for the next cluster.
ScanCluster ==
    /\ pc = "vox_loop"
    /\ ret.todo # <<>>
    /\ Len(GroupBy(locs, "id", Head(ret.todo)).rows) >= sweep.cutoff
    /\ curve' = voxel_scan(GroupBy(locs, "id", Head(ret.todo)),
                           sweep.bin_min, sweep.bin_max, sweep.step)
    /\ \E outcome \in FitOutcomes(curve'.bin_list) :
           ret' = ClusterStep(ret, Head(ret.todo),
                              GroupBy(locs, "id", Head(ret.todo)), curve', outcome)
    /\ pc' = IF ret'.err = "none" THEN "vox_loop" ELSE "vox_failed"
    /\ UNCHANGED <<locs, bin_xy, bin_z, data, counted, analyzed, sweep, decodeVars, concatVars>>

\* Lines 159-165: the result table is built and returned.
ReturnTable ==
    /\ pc = "vox_loop"
    /\ ret.todo = <<>>
    /\ ret' = RetTable(ret)
    /\ pc' = IF ret'.err = "none" THEN "vox_done" ELSE "vox_failed"
    /\ UNCHANGED <<locs, bin_xy, bin_z, data, counted, analyzed, sweep, curve, decodeVars, concatVars>>

NextSweep == SkipCluster \/ ScanCluster \/ ReturnTable

SpecSweep == InitSweep /\ [][NextSweep]_vars

---------------------------------------------------------------------------
(* voxelscan.voxel_scan called on one table of localizations.              *)

InitScan ==
    /\ \E t \in SweepTables : locs = LocsFrame(t)
    /\ \E lo \in BinMins, hi \in BinMaxs, st \in Steps :
           sweep = [bin_min |-> lo, bin_max |-> hi, step |-> st, cutoff |-> 1]
    /\ bin_xy = 0
    /\ bin_z = 0
    /\ pc = "scan_start"
    /\ data = EmptyFrame
    /\ counted = NotCalled
    /\ analyzed = NotCalled
    /\ curve = NotCalled
    /\ ret = NotCalled
    /\ DecodeIdle
    /\ ConcatIdle

\* bin_list, vol_list, surf_list, stov_list, core_ratio_list = voxel_scan(...)
VoxelScan ==
    /\ pc = "scan_start"
    /\ curve' = voxel_scan(locs, sweep.bin_min, sweep.bin_max, sweep.step)
    /\ locs' = IF sweep.step = 0 THEN locs
               ELSE ScanCaller(locs, RangeSeq(sweep.bin_min, sweep.bin_max, sweep.step))
    /\ pc' = IF curve'.err = "none" THEN "scanned" ELSE "scan_failed"
    /\ UNCHANGED <<bin_xy, bin_z, data, counted, analyzed, sweep, ret, decodeVars, concatVars>>

NextScan == VoxelScan

SpecScan == InitScan /\ [][NextScan]_vars

---------------------------------------------------------------------------
(* decode.decode_ids called on one cluster and one list of masks.          *)

InitDecode ==
    /\ \/ /\ \E rows \in Clusters : cluster = DataFrame(PixCols, rows)
          /\ masks \in MaskLists
       \/ /\ cluster = DataFrame(PixCols, WideRows)
          /\ masks \in SeqsUpTo({WideImage}, MaxMasks) \ {<<>>}
    /\ decoded = NotCalled
    /\ pc = "decode_start"
    /\ locs = EmptyFrame
    /\ bin_xy = 0
    /\ bin_z = 0
    /\ data = EmptyFrame
    /\ counted = NotCalled
    /\ analyzed = NotCalled
    /\ sweep = NoSweep
    /\ curve = NotCalled
    /\ ret = NotCalled
    /\ ConcatIdle

\* Lines 291-305 of decode.py.
DecodeIds ==
    /\ pc = "decode_start"
    /\ \E cast \in CastModes : decoded' = decode_ids(cluster, masks, cast)
    /\ pc' = IF decoded'.err = "none" THEN "decoded" ELSE "decode_failed"
    /\ UNCHANGED <<locs, bin_xy, bin_z, data, counted, analyzed, sweep, curve, ret,
                   cluster, masks, concatVars>>

NextDecode == DecodeIds

SpecDecode == InitDecode /\ [][NextDecode]_vars

---------------------------------------------------------------------------
(* concatenate.main run on the files of one directory.                     *)

InitConcat ==
    /\ hdf5_list \in FileLists
    /\ \E zs \in ZSteps, c \in CleanArgs : args = [z_step |-> zs] @@ c
    /\ outdata = EmptyFrame
    /\ off_val = 0
    /\ z_val = 0
    /\ item = 0
    /\ yaml \in Yamls
    /\ written = NotCalled
    /\ pc = "concat_loop"
    /\ locs = EmptyFrame
    /\ bin_xy = 0
    /\ bin_z = 0
    /\ data = EmptyFrame
    /\ counted = NotCalled
    /\ analyzed = NotCalled
    /\ sweep = NoSweep
    /\ curve = NotCalled
    /\ ret = NotCalled
    /\ DecodeIdle

\* Lines 85-92 of concatenate.py: one turn of the loop over hdf5_list.
ConcatFile ==
    /\ pc = "concat_loop"
    /\ item < Len(hdf5_list)
    /\ LET step == concat_z(outdata, Cleaned(hdf5_list[item + 1], args), off_val, z_val)
       IN IF step.err # "none"
          THEN /\ pc' = "concat_failed"
               /\ written' = [err |-> step.err]
               /\ UNCHANGED <<outdata, off_val, z_val>>
          ELSE /\ pc' = "concat_loop"
               /\ UNCHANGED written
               /\ outdata' = step.data_out
               /\ off_val' = off_val + step.last_frame
               /\ z_val' = z_val + args.z_step
    /\ item' = item + 1
    /\ UNCHANGED <<locs, bin_xy, bin_z, data, counted, analyzed, sweep, curve, ret,
                   decodeVars, hdf5_list, args, yaml>>

\* Lines 94-106 of concatenate.py: the loop has ended; the yaml file is
\* read and outdata is written, or an exception ends main.
WriteOutput ==
    /\ pc = "concat_loop"
    /\ item = Len(hdf5_list)
    /\ written' = WriteFiles(hdf5_list, outdata, yaml)
    /\ pc' = IF written'.err = "none" THEN "concat_done" ELSE "concat_failed"
    /\ UNCHANGED <<locs, bin_xy, bin_z, data, counted, analyzed, sweep, curve, ret,
                   decodeVars, hdf5_list, args, outdata, off_val, z_val, item, yaml>>

NextConcat == ConcatFile \/ WriteOutput

SpecConcat == InitConcat /\ [][NextConcat]_vars

---------------------------------------------------------------------------
(* Vocabulary of the properties.                                           *)

Axes == {"x_vox", "y_vox", "z_vox"}

FaceCol(axis) ==
    IF axis = "x_vox" THEN "x_faces"
    ELSE IF axis = "y_vox" THEN "y_faces" ELSE "z_faces"

\* The set of occupied voxels of a table.
Occ(rows) == {Triple(rows[i]) : i \in DOMAIN rows}

\* The voxel at distance d from t along axis.
Neighbour(t, axis, d) ==
    IF axis = "x_vox" THEN <<t[1] + d, t[2], t[3]>>
    ELSE IF axis = "y_vox" THEN <<t[1], t[2] + d, t[3]>>
    ELSE <<t[1], t[2], t[3] + d>>

\* Number of the two neighbours of t along axis that are not occupied.
Unoccupied(t, axis, occ) ==
    Cardinality({d \in {-1, 1} : Neighbour(t, axis, d) \notin occ})

SixNeighbours(t) == {Neighbour(t, a, d) : a \in Axes, d \in {-1, 1}}

CountReturned == pc = "counted" /\ counted.err = "none"

\* C1 for one scanned row r against the occupied set occ.
FacesMatchNeighbours(r, occ) ==
    /\ \A a \in Axes : r[FaceCol(a)] = Unoccupied(Triple(r), a, occ)
    /\ (r["total_faces"] = 0) <=> (SixNeighbours(Triple(r)) \subseteq occ)

\* C1: every face count that count_exposed_faces assigns equals the number
\* of unoccupied neighbours of the voxel along that axis in the deduplicated
\* grid, and total_faces is 0 exactly when all six neighbours are occupied.
C1_FaceCountIsUnoccupiedNeighbours ==
    CountReturned =>
        \A i \in DOMAIN counted.out_data.rows :
            FacesMatchNeighbours(counted.out_data.rows[i], Occ(counted.grid.rows))

\* A scanned grid holding a core voxel beside a column with a gap.
C1_Witness ==
    /\ CountReturned
    /\ \E i \in DOMAIN counted.out_data.rows :
           counted.out_data.rows[i]["total_faces"] = 0
    /\ \E i \in DOMAIN counted.out_data.rows :
           counted.out_data.rows[i]["x_faces"] = 2

\* The rows of the column of r scanned along axis.
ColumnOf(rows, r, axis) ==
    SelectSeq(rows, LAMBDA q : \A a \in Axes \ {axis} : q[a] = r[a])

\* Number of maximal contiguous runs in a column: voxels whose low
\* neighbour along axis is not in the column.
Runs(col, axis) ==
    Cardinality({i \in DOMAIN col :
                    Neighbour(Triple(col[i]), axis, -1) \notin Occ(col)})

ColumnSumIsTwiceRuns(rows, r, axis) ==
    ColSum(ColumnOf(rows, r, axis), FaceCol(axis))
        = 2 * Runs(ColumnOf(rows, r, axis), axis)

\* C2: in every scanned column the face counts of the scan axis add up to
\* twice the number of maximal runs, and every count is 0, 1 or 2.
C2_ColumnSumTwiceRuns ==
    CountReturned =>
        \A i \in DOMAIN counted.out_data.rows : \A a \in Axes :
            /\ counted.out_data.rows[i][FaceCol(a)] \in {0, 1, 2}
            /\ ColumnSumIsTwiceRuns(counted.out_data.rows,
                                    counted.out_data.rows[i], a)

\* A scanned column made of two runs, next to a column of one voxel.
C2_Witness ==
    /\ CountReturned
    /\ \E i \in DOMAIN counted.out_data.rows :
           Runs(ColumnOf(counted.out_data.rows, counted.out_data.rows[i], "x_vox"),
                "x_vox") = 2
    /\ \E i \in DOMAIN counted.out_data.rows :
           Len(ColumnOf(counted.out_data.rows, counted.out_data.rows[i], "x_vox")) = 1

ColMax(rows, c) ==
    CHOOSE m \in {rows[i][c] : i \in DOMAIN rows} :
        \A i \in DOMAIN rows : m >= rows[i][c]

\* The normalized, deduplicated grid fills the whole a x b x c box.
IsCuboid(rows, a, b, c) ==
    /\ a >= 3 /\ b >= 3 /\ c >= 3
    /\ Len(rows) = a * b * c

CuboidCounts(ret0, a, b, c) ==
    IsCuboid(ret0.grid.rows, a, b, c) =>
        /\ ret0.total_vox = a * b * c
        /\ ret0.surf_vox = a * b * c - (a - 2) * (b - 2) * (c - 2)
        /\ Len(extract_core(ret0.out_data)) = (a - 2) * (b - 2) * (c - 2)

\* C3: a fully occupied a x b x c block (a, b, c >= 3) has abc voxels of
\* which exactly (a-2)(b-2)(c-2) are core and the others surface.
C3_CuboidCore ==
    CountReturned /\ counted.grid.rows # <<>> =>
        CuboidCounts(counted,
                     ColMax(counted.grid.rows, "x_vox"),
                     ColMax(counted.grid.rows, "y_vox"),
                     ColMax(counted.grid.rows, "z_vox"))

\* A block with unequal sides and more than one core voxel was scanned.
C3_Witness ==
    /\ CountReturned
    /\ counted.grid.rows # <<>>
    /\ IsCuboid(counted.grid.rows, ColMax(counted.grid.rows, "x_vox"),
                ColMax(counted.grid.rows, "y_vox"), ColMax(counted.grid.rows, "z_vox"))
    /\ ColMax(counted.grid.rows, "x_vox") # ColMax(counted.grid.rows, "z_vox")
    /\ counted.total_vox - counted.surf_vox > 1

CountCalled == counted.err # "not called"

AnalyzeCalled == analyzed.err # "not called"

IsExample == locs.rows = ExampleTable /\ bin_xy = 15 /\ bin_z = 15

\* (x_vox, y_vox, z_vox, x_faces, y_faces, z_faces) of a scanned row.
VoxelFaces(r) ==
    <<r["x_vox"], r["y_vox"], r["z_vox"], r["x_faces"], r["y_faces"], r["z_faces"]>>

ExampleScan(c) ==
    /\ c.err = "none"
    /\ Len(c.out_data.rows) = 2
    /\ {VoxelFaces(c.out_data.rows[i]) : i \in DOMAIN c.out_data.rows}
           = {<<1, 1, 1, 1, 2, 2>>, <<2, 1, 1, 1, 2, 2>>}
    /\ c.total_vox = 2
    /\ c.surf_vox = 2

ExampleSummary(a) ==
    /\ a.err = "none"
    /\ Len(a.rows) = 1
    /\ a.rows[1].total_vox = 2
    /\ a.rows[1].total_surf_vox = 2
    /\ a.rows[1].vol_vox = 6750

\* C4: the points (0,0,0), (10,0,0), (20,0,0) with bin_xy = bin_z = 15 give
\* the two voxels (1,1,1) and (2,1,1), each with faces (1, 2, 2), two voxels
\* in total, both surface, and a volume of 6750.
C4_EndToEndExample ==
    IsExample =>
        /\ CountCalled => ExampleScan(counted)
        /\ AnalyzeCalled => ExampleSummary(analyzed)

\* The example was voxelized and analyze_clusters has returned its row.
C4_Witness == IsExample /\ AnalyzeCalled /\ pc = "analyzed"

\* Voxel index i holds coordinate v for bin b: i*b <= v < (i+1)*b.
InVoxel(v, i, b) == i * b <= v /\ v < (i + 1) * b

RowInVoxel(r, bxy, bz) ==
    /\ InVoxel(r["x_nm"], r["x_vox"], bxy)
    /\ InVoxel(r["y_nm"], r["y_vox"], bxy)
    /\ InVoxel(r["z"], r["z_vox"], bz)
    /\ (r["x_nm"] = -1 /\ bxy = 15) => r["x_vox"] = -1

\* C5: for positive bins voxelize puts every coordinate v in the voxel i
\* with i*b <= v < (i+1)*b, also for negative v (-1 with bin 15 is voxel -1).
C5_FloorNotTruncation ==
    pc # "start" /\ bin_xy > 0 /\ bin_z > 0 =>
        \A i \in DOMAIN data.rows : RowInVoxel(data.rows[i], bin_xy, bin_z)

\* A table with the coordinate -1 (bin 15) and a negative z was voxelized.
C5_Witness ==
    /\ pc = "voxelized"
    /\ bin_xy = 15
    /\ \E i \in DOMAIN data.rows : data.rows[i]["x_nm"] = -1 /\ data.rows[i]["x_vox"] = -1
    /\ \E i \in DOMAIN data.rows : data.rows[i]["z"] < 0 /\ data.rows[i]["z_vox"] < 0

\* The last row of the table lies in a voxel an earlier row occupies.
LastIsExtra(rows) ==
    /\ rows # <<>>
    /\ \E i \in 1..(Len(rows) - 1) : Triple(rows[i]) = Triple(rows[Len(rows)])

WithoutLast(df) == [df EXCEPT !.rows = SubSeq(df.rows, 1, Len(df.rows) - 1)]

SameScan(c, d) ==
    /\ c.err = d.err
    /\ c.out_data.rows = d.out_data.rows
    /\ c.total_vox = d.total_vox
    /\ c.surf_vox = d.surf_vox
    /\ c.xy_faces = d.xy_faces
    /\ c.z_faces = d.z_faces

\* C6: the scanned grid holds every voxel triple once, total_vox is the
\* number of distinct triples of the input, and a further point inside an
\* occupied voxel changes no face count and no total.
C6_Deduplicated ==
    CountReturned =>
        /\ \A i, j \in DOMAIN counted.grid.rows :
               Triple(counted.grid.rows[i]) = Triple(counted.grid.rows[j]) => i = j
        /\ \A i, j \in DOMAIN counted.out_data.rows :
               Triple(counted.out_data.rows[i]) = Triple(counted.out_data.rows[j]) => i = j
        /\ counted.total_vox = Cardinality(Occ(data.rows))
        /\ LastIsExtra(data.rows) =>
               SameScan(counted, count_exposed_faces(WithoutLast(data)))

\* Three points in two voxels, the last one in an occupied voxel.
C6_Witness ==
    /\ CountReturned
    /\ Len(data.rows) = 3
    /\ counted.total_vox = 2
    /\ LastIsExtra(data.rows)

\* The difference of rows i and j on every axis is the same in g as in d.
SameDifferences(g, d) ==
    /\ Len(g) = Len(d)
    /\ \A i, j \in DOMAIN g : \A a \in Axes : g[i][a] - g[j][a] = d[i][a] - d[j][a]

\* C7: after auto_origin_df on a non-empty grid the minimum of every axis
\* is 1 and the coordinate differences between voxels are unchanged.
C7_OriginNormalized ==
    CountCalled /\ counted.grid.rows # <<>> =>
        /\ \A a \in Axes : ColMin(counted.grid.rows, a) = 1
        /\ SameDifferences(counted.grid.rows, DropDuplicates(data.rows))

\* A grid whose lowest x index was negative and differed from its lowest y.
C7_Witness ==
    /\ CountReturned
    /\ Len(counted.grid.rows) >= 2
    /\ ColMin(data.rows, "x_vox") < 0
    /\ ColMin(data.rows, "y_vox") # ColMin(data.rows, "x_vox")

\* C8: voxelization with a non-positive bin fails with an error before any
\* voxel coordinate is computed: no table of voxel coordinates is produced.
C8_InvalidBinRejected ==
    (bin_xy <= 0 \/ bin_z <= 0) /\ pc # "start" =>
        /\ data.err # "none"
        /\ data.rows = <<>>

\* C9: for an empty point set count_exposed_faces returns normally with an
\* empty grid and zero totals.
C9_EmptyIsZeroVolume ==
    locs.rows = <<>> /\ bin_xy > 0 /\ bin_z > 0 /\ CountCalled =>
        /\ counted.err = "none"
        /\ counted.out_data.rows = <<>>
        /\ counted.total_vox = 0
        /\ counted.surf_vox = 0
        /\ counted.xy_faces = 0
        /\ counted.z_faces = 0

\* The sweep bounds are malformed.
BadRange == sweep.bin_max <= sweep.bin_min \/ sweep.step <= 0

SweepCalled == curve.err # "not called"

\* C10: a sweep with bin_max <= bin_min or bin_step <= 0 fails before any
\* bin is voxelized: it returns no curve, empty or not, and no sigmoid fit
\* is attempted.
C10_InvalidRangeRejected ==
    BadRange /\ SweepCalled =>
        /\ curve.err # "none"
        /\ ret.fits = 0

\* The loop of _analyze_vox visited every cluster and every fit_sigmoid call
\* it made either returned or raised the RuntimeError the loop catches.
LoopCompleted(r) ==
    /\ r.todo = <<>>
    /\ Len(r.vox_bins) = Len(r.id)
    /\ \A k \in DOMAIN r.vox_bins : r.vox_bins[k] # <<>>
    /\ r.err # "TypeError"

\* The clusters whose fit returned.
Fitted(r) == {r.sigmoid_params[k].cluster : k \in DOMAIN r.sigmoid_params}

\* The result table has one row per recorded cluster, and the row of every
\* fitted cluster carries its own fit.
EveryClusterReported(r) ==
    /\ r.err = "none"
    /\ \A k \in DOMAIN r.id :
           \E j \in DOMAIN r.table :
               /\ r.table[j].id = r.id[k]
               /\ r.table[j].vox_bins = r.vox_bins[k]
               /\ r.id[k] \in Fitted(r) => r.table[j].sigmoid_params.cluster = r.id[k]

\* C11: when the sigmoid fit of some clusters fails with RuntimeError in a
\* sweep over a well-formed range, _analyze_vox still returns a result table that holds a record for every
\* cluster that passed the cutoff, the fitted ones with their own fit.
C11_FitFailureTolerated ==
    pc \in {"vox_done", "vox_failed"} /\ ~BadRange /\ LoopCompleted(ret) =>
        EveryClusterReported(ret)

\* The bins the sweep visits.
SweepBins == RangeSeq(sweep.bin_min, sweep.bin_max, sweep.step)

\* Sample k of curve c is a quotient whose denominator is not zero.
Computable(c, k) == c.stov_list[k][2] # 0 /\ c.core_ratio_list[k][2] # 0

\* C12: voxel_scan of a cluster without voxels does not raise, records one
\* sample per bin, and records no s_to_v or core ratio that is a quotient
\* by the zero volume.
C12_ZeroVolumeNotComputable ==
    pc \in {"scanned", "scan_failed"} /\ locs.rows = <<>> /\ ~BadRange =>
        /\ curve.err = "none"
        /\ Len(curve.stov_list) = Len(SweepBins)
        /\ \A k \in DOMAIN curve.stov_list : Computable(curve, k)

\* The bins bin_min + k*step (k >= 0) below bin_max.
BinsBelowMax ==
    {b \in sweep.bin_min..(sweep.bin_max - 1) :
        (b - sweep.bin_min) % sweep.step = 0}

\* Every list of curve c holds one entry per visited bin.
OneSamplePerBin(c) ==
    /\ Len(c.vol_list) = Len(c.bin_list)
    /\ Len(c.surf_list) = Len(c.bin_list)
    /\ Len(c.stov_list) = Len(c.bin_list)
    /\ Len(c.core_ratio_list) = Len(c.bin_list)

\* C13: for bin_min < bin_max and step > 0, voxel_scan of a non-empty
\* cluster records exactly one sample for every bin bin_min + k*step below
\* bin_max, in ascending order, and none at bin_max or beyond; the sweep
\* (10, 20, 5) records the bins 10 and 15.
C13_HalfOpenSweep ==
    pc \in {"scanned", "scan_failed"} /\ ~BadRange /\ locs.rows # <<>> =>
        /\ curve.err = "none"
        /\ OneSamplePerBin(curve)
        /\ Range(curve.bin_list) = BinsBelowMax
        /\ \A j, k \in DOMAIN curve.bin_list :
               j < k => curve.bin_list[j] < curve.bin_list[k]
        /\ (sweep.bin_min = 10 /\ sweep.bin_max = 20 /\ sweep.step = 5)
               => curve.bin_list = <<10, 15>>

\* The sweep (10, 20, 5), whose bound is itself a multiple of the step, was
\* run on a table of three localizations.
C13_Witness ==
    /\ pc = "scanned"
    /\ sweep.bin_min = 10 /\ sweep.bin_max = 20 /\ sweep.step = 5
    /\ Len(locs.rows) = 3
    /\ Len(curve.core_ratio_list) = 2

\* The voxels occupied by sub-group h of cluster i.
SubOcc(rows, i, h) ==
    {Triple(rows[k]) : k \in {j \in DOMAIN rows :
                                 rows[j]["id"] = i /\ rows[j]["hdbscan"] = h}}

SubGroupsOf(rows, i) ==
    {rows[k]["hdbscan"] : k \in {j \in DOMAIN rows : rows[j]["id"] = i}}

\* The voxels of cluster i, each tagged with its sub-group.
TaggedVoxels(rows, i) ==
    {<<h, t>> \in SubGroupsOf(rows, i) \X Occ(rows) : t \in SubOcc(rows, i, h)}

\* The tagged voxels with a neighbour missing from their own sub-group.
TaggedSurface(rows, i) ==
    {v \in TaggedVoxels(rows, i) :
        ~(SixNeighbours(v[2]) \subseteq SubOcc(rows, i, v[1]))}

\* The faces along the given axes that are exposed within their sub-group.
TaggedFaces(rows, i, axes) ==
    {<<v, a, d>> \in TaggedVoxels(rows, i) \X axes \X {-1, 1} :
        Neighbour(v[2], a, d) \notin SubOcc(rows, i, v[1])}

\* The totals of the inner loop of analyze_clusters for cluster i.
ClusterTotals(df, i) ==
    SumSubGroups(ZeroTotals, GroupBy(df, "id", i),
                 GroupValues(GroupBy(df, "id", i).rows, "hdbscan"))

SumsOverSubGroups(row, t, rows, bxy, bz) ==
    /\ row.total_vox = Cardinality(TaggedVoxels(rows, row.id))
    /\ row.total_surf_vox = Cardinality(TaggedSurface(rows, row.id))
    /\ t.total_vox = row.total_vox
    /\ t.total_surf_vox = row.total_surf_vox
    /\ t.total_xy_faces = Cardinality(TaggedFaces(rows, row.id, {"x_vox", "y_vox"}))
    /\ t.total_z_faces = Cardinality(TaggedFaces(rows, row.id, {"z_vox"}))
    /\ row.surf_area = t.total_xy_faces * bxy * bz + t.total_z_faces * (bxy * bxy)

\* C14: for every cluster, analyze_clusters scans each hdbscan sub-group as
\* its own deduplicated grid and reports the sums over the sub-groups: the
\* voxel count, the surface voxel count and the xy and z face totals count
\* each sub-group's voxels and the faces exposed within that sub-group, so
\* a voxel of another sub-group hides no face.
C14_SubGroupsSummed ==
    pc = "analyzed" =>
        \A k \in DOMAIN analyzed.rows :
            SumsOverSubGroups(analyzed.rows[k],
                              ClusterTotals(data, analyzed.rows[k].id),
                              data.rows, bin_xy, bin_z)

\* Two rows of one cluster lie in z-adjacent voxels of different sub-groups.
C14_Witness ==
    /\ pc = "analyzed"
    /\ \E j, k \in DOMAIN data.rows :
           /\ data.rows[j]["id"] = data.rows[k]["id"]
           /\ data.rows[j]["hdbscan"] # data.rows[k]["hdbscan"]
           /\ Triple(data.rows[j]) = Neighbour(Triple(data.rows[k]), "z_vox", 1)

\* voxelize + analyze_clusters of one cluster with bin_xy = bin_z = b.
AnalyzedAt(locs_group, b) == analyze_clusters(voxelize(locs_group, b, b), b, b)

\* Sample k of curve c agrees with the one-row summary a: same volume, same
\* surface area, and the same quotient (total - surface) / total.
SampleMatches(c, k, a) ==
    /\ a.err = "none"
    /\ Len(a.rows) = 1
    /\ c.vol_list[k] = a.rows[1].vol_vox
    /\ c.surf_list[k] = a.rows[1].surf_area
    /\ c.core_ratio_list[k][1] * a.rows[1].total_vox
           = (a.rows[1].total_vox - a.rows[1].total_surf_vox) * c.core_ratio_list[k][2]

\* The cluster the last voxel_scan call of _analyze_vox was made for.
ScannedCluster == GroupBy(locs, "id", Last(ret.id))

\* C15: for every cluster and every bin b of a well-formed sweep, the sample that
\* voxel_scan records at b has the volume, the surface area and the core
\* ratio that analyze_clusters reports for the same points voxelized with
\* bin_xy = bin_z = b.
C15_SweepMatchesAnalyze ==
    pc \in {"vox_loop", "vox_done", "vox_failed"} /\ curve.err = "none"
        /\ ~BadRange =>
        \A k \in DOMAIN curve.bin_list :
            SampleMatches(curve, k, AnalyzedAt(ScannedCluster, curve.bin_list[k]))

\* The sums of the x_faces, y_faces and z_faces columns of a scanned table.
ColumnSums(rows) ==
    <<ColSum(rows, "x_faces"), ColSum(rows, "y_faces"), ColSum(rows, "z_faces")>>

AddTriple(p, q) == <<p[1] + q[1], p[2] + q[2], p[3] + q[3]>>

\* The column sums added up over the scanned grids of the sub-groups subs
\* of cluster locs_group.
RECURSIVE FaceSums(_, _)
FaceSums(locs_group, subs) ==
    IF subs = <<>> THEN <<0, 0, 0>>
    ELSE AddTriple(
             ColumnSums(count_exposed_faces(
                            GroupBy(locs_group, "hdbscan", Head(subs))).out_data.rows),
             FaceSums(locs_group, Tail(subs)))

ClusterFaceSums(df, i) ==
    FaceSums(GroupBy(df, "id", i), GroupValues(GroupBy(df, "id", i).rows, "hdbscan"))

\* The sample the sweep computes at bin b from the totals t.
SweepSample(t, b) ==
    AppendSample(EmptyCurve, b,
                 [err |-> "none", total_vox |-> t.total_vox,
                  surf_vox |-> t.total_surf_vox,
                  xy_faces |-> t.total_xy_faces, z_faces |-> t.total_z_faces])

VolumeAndArea(row, t, sums, bxy, bz) ==
    /\ row.vol_vox = row.total_vox * bxy * bxy * bz
    /\ row.surf_area = (sums[1] + sums[2]) * bxy * bz + sums[3] * bxy * bxy
    /\ bxy = bz =>
           /\ row.vol_vox = row.total_vox * bxy * bxy * bxy
           /\ row.surf_area = (sums[1] + sums[2] + sums[3]) * bxy * bxy
           /\ SweepSample(t, bxy).vol_list = <<row.vol_vox>>
           /\ SweepSample(t, bxy).surf_list = <<row.surf_area>>

\* C16: analyze_clusters reports vol_vox = total_vox * bin_xy^2 * bin_z and
\* surf_area = (sum of x_faces and y_faces) * bin_xy * bin_z + (sum of
\* z_faces) * bin_xy^2; with bin_xy = bin_z = b these are total_vox * b^3
\* and (xy_faces + z_faces) * b^2, the values the sweep computes.
C16_VolumeAndSurfaceArea ==
    pc = "analyzed" =>
        \A k \in DOMAIN analyzed.rows :
            VolumeAndArea(analyzed.rows[k],
                          ClusterTotals(data, analyzed.rows[k].id),
                          ClusterFaceSums(data, analyzed.rows[k].id),
                          bin_xy, bin_z)

XYDiffersFromZ(sums) == sums[1] + sums[2] # sums[3]

\* A cluster of several voxels whose xy and z face sums differ was analyzed
\* with unequal bins.
C16_Witness ==
    /\ pc = "analyzed"
    /\ bin_xy = 10 /\ bin_z = 20
    /\ \E k \in DOMAIN analyzed.rows :
           /\ analyzed.rows[k].total_vox >= 3
           /\ analyzed.rows[k].vol_vox = analyzed.rows[k].total_vox * 2000
           /\ XYDiffersFromZ(ClusterFaceSums(data, analyzed.rows[k].id))

\* The rows of a scanned table that satisfy P.
RowsWhere(rows, P(_)) == {i \in DOMAIN rows : P(rows[i])}

HasFace(r) == r["total_faces"] # 0

\* The totals that count_exposed_faces returned as c describe c.out_data.
TotalsDescribeGrid(c) ==
    /\ c.total_vox = Len(c.out_data.rows)
    /\ c.surf_vox = Cardinality(RowsWhere(c.out_data.rows, HasFace))
    /\ c.xy_faces = ColSum(c.out_data.rows, "x_faces") + ColSum(c.out_data.rows, "y_faces")
    /\ c.z_faces = ColSum(c.out_data.rows, "z_faces")
    /\ \A i \in DOMAIN c.out_data.rows :
           /\ c.out_data.rows[i]["total_faces"]
                  = c.out_data.rows[i]["x_faces"] + c.out_data.rows[i]["y_faces"]
                    + c.out_data.rows[i]["z_faces"]
           /\ c.out_data.rows[i]["xy_faces"]
                  = c.out_data.rows[i]["x_faces"] + c.out_data.rows[i]["y_faces"]

\* extract_surface and extract_core split the scanned rows in two.
SurfaceCorePartition(c) ==
    /\ Range(extract_surface(c.out_data)) \cup Range(extract_core(c.out_data))
           = Range(c.out_data.rows)
    /\ Range(extract_surface(c.out_data)) \cap Range(extract_core(c.out_data)) = {}
    /\ Len(extract_surface(c.out_data)) + Len(extract_core(c.out_data))
           = Len(c.out_data.rows)
    /\ Len(extract_surface(c.out_data)) = c.surf_vox
    /\ Len(extract_core(c.out_data)) = c.total_vox - c.surf_vox

\* C17: count_exposed_faces returns total_vox = the number of scanned
\* voxels, surf_vox = the number with total_faces # 0, total_faces = x + y
\* + z faces and xy_faces = x + y faces per voxel; extract_surface and
\* extract_core partition the scanned voxels, the core holding total_vox -
\* surf_vox of them.
C17_TotalsAndPartition ==
    CountReturned => TotalsDescribeGrid(counted) /\ SurfaceCorePartition(counted)

\* A scanned grid with both core and surface voxels and a voxel whose x, y
\* and z face counts are not all equal.
C17_Witness ==
    /\ CountReturned
    /\ counted.total_vox - counted.surf_vox >= 1
    /\ counted.surf_vox >= 1
    /\ \E i \in DOMAIN counted.out_data.rows :
           counted.out_data.rows[i]["xy_faces"] = 1
               /\ counted.out_data.rows[i]["total_faces"] = 2

\* The table with every localization moved by the vector t.
Shifted(df, t) ==
    [df EXCEPT !.rows =
        [i \in DOMAIN df.rows |->
            [df.rows[i] EXCEPT !["x_nm"] = @ + t[1],
                               !["y_nm"] = @ + t[2],
                               !["z"] = @ + t[3]]]]

\* Translation vectors: within a bin, a whole bin, and across bins.
Translations == {<<5, 0, 0>>, <<0, 0, -7>>, <<15, 15, 15>>, <<-20, 3, 40>>}

SameTotals(c, d) ==
    /\ d.err = c.err
    /\ d.total_vox = c.total_vox
    /\ d.surf_vox = c.surf_vox
    /\ d.xy_faces = c.xy_faces
    /\ d.z_faces = c.z_faces

\* C18: for positive bins, voxelize + count_exposed_faces on the points
\* moved by any vector t returns the same total_vox, surf_vox, xy_faces and
\* z_faces as on the original points.
C18_TranslationInvariant ==
    CountReturned /\ bin_xy > 0 /\ bin_z > 0 =>
        \A t \in Translations :
            SameTotals(counted,
                       count_exposed_faces(voxelize(Shifted(locs, t), bin_xy, bin_z)))

\* Scanning the normalized grid g again gives what c already holds.
RescanIsIdentical(c, again) ==
    /\ again.err = "none"
    /\ again.grid.rows = c.grid.rows
    /\ {VoxelFaces(again.out_data.rows[i]) : i \in DOMAIN again.out_data.rows}
           = {VoxelFaces(c.out_data.rows[i]) : i \in DOMAIN c.out_data.rows}
    /\ again.out_data.rows = c.out_data.rows
    /\ SameTotals(c, again)

\* C19: auto_origin_df applied to an origin-normalized grid changes no
\* coordinate, and count_exposed_faces on the normalized grid returns the
\* same per-voxel face counts and the same totals as on the original grid.
C19_NormalizationIdempotent ==
    CountReturned =>
        /\ auto_origin_df(counted.grid).rows = counted.grid.rows
        /\ RescanIsIdentical(counted, count_exposed_faces(counted.grid))

\* The original grid was not normalized: its lowest indices are not 1 and
\* differ between axes, and it holds at least three voxels.
C19_Witness ==
    /\ CountReturned
    /\ counted.total_vox >= 3
    /\ ColMin(data.rows, "x_vox") < 0
    /\ ColMin(data.rows, "z_vox") # ColMin(data.rows, "x_vox")
    /\ ColMin(data.rows, "z_vox") # 1

\* The six orders in which the three axes can be scanned.
AxisOrders ==
    {o \in [1..3 -> Axes] : \A i, j \in 1..3 : o[i] = o[j] => i = j}

FaceTriples(df) == {VoxelFaces(df.rows[i]) : i \in DOMAIN df.rows}

\* The voxels of a scanned table, each with its face count along axis a.
AxisFaces(df, a) == {<<Triple(df.rows[i]), df.rows[i][FaceCol(a)]>> : i \in DOMAIN df.rows}

\* first, second and third are the tables after one, two and three scans of
\* n voxels in the order o: every scan keeps the counts of the axes scanned
\* before it, and the third table assigns the face triples xyz.
ScansAgree(first, second, third, o, xyz, n) ==
    /\ third.err = "none"
    /\ Len(first.rows) = n /\ Len(second.rows) = n /\ Len(third.rows) = n
    /\ AxisFaces(second, o[1]) = AxisFaces(first, o[1])
    /\ AxisFaces(third, o[1]) = AxisFaces(first, o[1])
    /\ AxisFaces(third, o[2]) = AxisFaces(second, o[2])
    /\ FaceTriples(third) = xyz

ThirdScan(first, second, o, xyz, n) ==
    ScansAgree(first, second, scan_faces(second, o[3]), o, xyz, n)

SecondScan(first, o, xyz, n) ==
    ThirdScan(first, scan_faces(first, o[2]), o, xyz, n)

\* The scans of grid g in the order o agree with the face triples xyz.
OrderAgrees(g, o, xyz) == SecondScan(scan_faces(g, o[1]), o, xyz, Len(g.rows))

\* C20: scanning one axis leaves the face counts already computed for
\* another axis unchanged, and the three scans run in any of the six axis
\* orders give every voxel the (x_faces, y_faces, z_faces) that the x, y, z
\* order of scan_faces_all gives it.
C20_AxisScansIndependent ==
    CountReturned =>
        \A o \in AxisOrders :
            OrderAgrees(counted.grid, o, FaceTriples(counted.out_data))

\* A scanned grid in which some voxel has three different face counts, so
\* that the axes cannot be confused.
C20_Witness ==
    /\ CountReturned
    /\ counted.total_vox >= 3
    /\ \E i \in DOMAIN counted.out_data.rows :
           /\ counted.out_data.rows[i]["x_faces"] = 0
           /\ counted.out_data.rows[i]["y_faces"] = 1
           /\ counted.out_data.rows[i]["z_faces"] = 2

\* The voxels occupied by the points of cluster i, whatever their sub-group.
ClusterOcc(rows, i) ==
    {Triple(rows[k]) : k \in {j \in DOMAIN rows : rows[j]["id"] = i}}

\* C21: for every cluster, the total_vox that analyze_clusters reports is
\* the number of distinct voxel triples the cluster's points occupy, however
\* many points, and of whichever sub-groups, lie in one voxel.
C21_OneVoxelPerCluster ==
    pc = "analyzed" =>
        \A k \in DOMAIN analyzed.rows :
            analyzed.rows[k].total_vox
                = Cardinality(ClusterOcc(data.rows, analyzed.rows[k].id))

\* The coordinate of triple t along axis.
Coord(t, axis) ==
    IF axis = "x_vox" THEN t[1] ELSE IF axis = "y_vox" THEN t[2] ELSE t[3]

\* The voxels of occ in the column of t along axis, on side d of t.
Beyond(t, axis, d, occ) ==
    {u \in occ : /\ \A a \in Axes \ {axis} : Coord(u, a) = Coord(t, a)
                 /\ (Coord(u, axis) - Coord(t, axis)) * d > 0}

\* 1 when the face of t on side d is exposed by the rule of the scan: no
\* voxel of the column lies on that side, or the nearest one is more than
\* one step away, whatever the distance.
GapFace(t, axis, d, occ) ==
    IF \E u \in Beyond(t, axis, d, occ) : (Coord(u, axis) - Coord(t, axis)) * d = 1
    THEN 0 ELSE 1

\* The scan s of grid g holds the voxels of g, each once.
SameVoxels(s, g) ==
    /\ s.err = "none"
    /\ Len(s.rows) = Len(g.rows)
    /\ Occ(s.rows) = Occ(g.rows)

\* C22: the output of each single-axis scan and of the three scans together
\* holds exactly the voxel triples of the input grid, none added, lost or
\* duplicated, and every gap wider than 1 between consecutive voxels of a
\* column exposes the two faces at its ends, whatever its width.
C22_ScanKeepsVoxels ==
    CountReturned =>
        /\ SameVoxels(counted.out_data, counted.grid)
        /\ \A a \in Axes : SameVoxels(scan_faces(counted.grid, a), counted.grid)
        /\ \A i \in DOMAIN counted.out_data.rows : \A a \in Axes :
               counted.out_data.rows[i][FaceCol(a)]
                   = GapFace(Triple(counted.out_data.rows[i]), a, -1, Occ(counted.grid.rows))
                     + GapFace(Triple(counted.out_data.rows[i]), a, 1, Occ(counted.grid.rows))

\* A scanned x-column of three voxels at 1, 3 and 6: one gap of width 2 and
\* one of width 3, next to nothing else.
C22_Witness ==
    /\ CountReturned
    /\ Occ(counted.out_data.rows) = {<<1, 1, 1>>, <<3, 1, 1>>, <<6, 1, 1>>}
    /\ \E i \in DOMAIN counted.out_data.rows :
           /\ Triple(counted.out_data.rows[i]) = <<3, 1, 1>>
           /\ counted.out_data.rows[i]["x_faces"] = 2

\* C23: count_exposed_faces leaves the table it was called on as voxelize
\* returned it, rows and voxel indices included, and voxel_scan, calc_com
\* and gyration_radius leave the caller's point table unchanged: every
\* in-place assignment goes to a private copy.
C23_InputReadOnly ==
    CountCalled =>
        /\ data = voxelize(locs, bin_xy, bin_z)
        /\ ScanCaller(locs, <<bin_xy, bin_z>>) = locs
        /\ ComStore(locs).caller = locs
        /\ GyrationStore(locs).caller = locs

\* count_exposed_faces returned for a table with two points in one voxel
\* and a lowest x index other than 1, which normalization in place would
\* have rewritten.
C23_Witness ==
    /\ CountReturned
    /\ Len(data.rows) = 3
    /\ counted.total_vox = 2
    /\ ColMin(data.rows, "x_vox") < 0

\* The row of a cluster was computed from at least one point: its mean and
\* its radius of gyration divide by a positive count.
DefinedComAndRg(row) ==
    /\ row.total_locs >= 1
    /\ row.com.n = row.total_locs
    /\ row.rg.den > 0
    /\ row.rg.num.hi >= 0
    /\ row.rg.num.lo >= 0

\* C24: analyze_clusters calls calc_com and gyration_radius only for
\* clusters with at least one point, so no division by a zero count occurs
\* and every cluster row has a defined centre of mass and radius of gyration.
C24_NoEmptyCluster ==
    pc = "analyzed" =>
        \A k \in DOMAIN analyzed.rows : DefinedComAndRg(analyzed.rows[k])

\* A table whose ids are not contiguous from 0, with a cluster of a single
\* point (radius 0) and a cluster of two points apart.
C24_Witness ==
    /\ pc = "analyzed"
    /\ Len(analyzed.rows) = 2
    /\ analyzed.rows[1].id = 1
    /\ analyzed.rows[1].total_locs = 2
    /\ analyzed.rows[1].rg.num # [hi |-> 0, lo |-> 0]
    /\ analyzed.rows[2].rg.num = [hi |-> 0, lo |-> 0]

\* The loop of _analyze_vox is between two clusters or has ended, and no
\* exception has left it.
BetweenClusters == pc \in {"vox_loop", "vox_done"} /\ ret.err = "none"

\* C25: in _analyze_vox over a well-formed range, after each cluster is
\* processed the nine result lists have the same length, so that the
\* sigmoid parameters at position k are those fitted for the cluster whose
\* id is at position k.
C25_ListsAligned ==
    BetweenClusters /\ ~BadRange =>
        /\ Cardinality(ListLengths(ret)) = 1
        /\ \A k \in DOMAIN ret.id : ret.sigmoid_params[k].cluster = ret.id[k]

\* The core ratio num / den lies in [0, 1).
InUnitRange(q) == q[2] > 0 /\ 0 <= q[1] /\ q[1] < q[2]

Even(n) == n % 2 = 0

\* Every axis of the scan c exposes an even number of faces, at least 2.
EvenFaceTotals(c) ==
    \A f \in {"x_faces", "y_faces", "z_faces"} :
        /\ ColSum(c.out_data.rows, f) >= 2
        /\ Even(ColSum(c.out_data.rows, f))

\* C26: a scanned grid with at least one voxel has at least one surface
\* voxel, every axis contributing an even face total of at least 2, a grid
\* of a single voxel has 2 faces on each axis, and the core ratio that
\* voxel_scan records for the grid is at least 0 and less than 1.
C26_SurfaceNeverEmpty ==
    CountReturned /\ counted.total_vox >= 1 =>
        /\ counted.surf_vox >= 1
        /\ EvenFaceTotals(counted)
        /\ InUnitRange(AppendSample(EmptyCurve, bin_xy, counted).core_ratio_list[1])
        /\ counted.total_vox = 1 =>
               VoxelFaces(counted.out_data.rows[1]) = <<1, 1, 1, 2, 2, 2>>

\* A block with core voxels was scanned: the ratio is strictly between 0 and 1.
C26_Witness ==
    /\ CountReturned
    /\ counted.total_vox - counted.surf_vox >= 8
    /\ counted.surf_vox >= 1

\* The voxelized table with every voxel index moved by the integer vector v.
ShiftedGrid(df, v) ==
    [df EXCEPT !.rows =
        [i \in DOMAIN df.rows |->
            [df.rows[i] EXCEPT !["x_vox"] = @ + v[1],
                               !["y_vox"] = @ + v[2],
                               !["z_vox"] = @ + v[3]]]]

LatticeShifts == {<<-3, 2, 0>>, <<1, -1, 4>>}

\* Whole multiples of the bins (bxy, bxy, bz).
BinMultiple(m, bxy, bz) == <<m[1] * bxy, m[2] * bxy, m[3] * bz>>

\* The scan d of the moved grid gives every voxel and every total what the
\* scan c of the original gives.
SameScanResult(c, d) ==
    /\ SameTotals(c, d)
    /\ Len(d.out_data.rows) = Len(c.out_data.rows)
    /\ FaceTriples(d.out_data) = FaceTriples(c.out_data)

\* C27: count_exposed_faces on a grid moved by an integer vector returns
\* the same totals and gives every voxel the same (x_faces, y_faces,
\* z_faces); moving all points by whole multiples of the bins changes no
\* result.
C27_LatticeTranslation ==
    CountReturned /\ bin_xy > 0 /\ bin_z > 0 =>
        /\ \A v \in LatticeShifts :
               SameScanResult(counted, count_exposed_faces(ShiftedGrid(data, v)))
        /\ SameScanResult(counted,
               count_exposed_faces(
                   voxelize(Shifted(locs, BinMultiple(<<2, -1, -3>>, bin_xy, bin_z)),
                            bin_xy, bin_z)))

\* A scanned grid of three voxels that straddles the origin, with unequal bins.
C27_Witness ==
    /\ CountReturned
    /\ bin_xy # bin_z
    /\ counted.total_vox = 3
    /\ ColMin(data.rows, "x_vox") < 0
    /\ ColMax(data.rows, "x_vox") > 0

\* The number of localizations of cluster i in the table df.
LocCount(df, i) == Cardinality({k \in DOMAIN df.rows : df.rows[k]["id"] = i})

\* The ids of df with at least `cutoff` localizations.
PassingIds(df, cutoff) ==
    {i \in {df.rows[k]["id"] : k \in DOMAIN df.rows} : LocCount(df, i) >= cutoff}

\* C28: the table _analyze_vox returns has exactly one row for each id with
\* at least `cutoff` localizations and no row for an id with fewer; its rows
\* are in ascending id order and total_locs is the id's localization count.
C28_CutoffExact ==
    pc = "vox_done" =>
        /\ {ret.table[k].id : k \in DOMAIN ret.table} = PassingIds(locs, sweep.cutoff)
        /\ Len(ret.table) = Cardinality(PassingIds(locs, sweep.cutoff))
        /\ \A j, k \in DOMAIN ret.table : j < k => ret.table[j].id < ret.table[k].id
        /\ \A k \in DOMAIN ret.table :
               ret.table[k].total_locs = LocCount(locs, ret.table[k].id)

\* A returned table with the row of a cluster that has exactly `cutoff`
\* localizations, from a table that also holds a cluster below the cutoff.
C28_Witness ==
    /\ pc = "vox_done"
    /\ \E k \in DOMAIN ret.table : ret.table[k].total_locs = sweep.cutoff
    /\ \E k \in DOMAIN locs.rows : LocCount(locs, locs.rows[k]["id"]) < sweep.cutoff

\* Localization k of the cluster lies on a lit pixel of mask image m.
OnMask(m, k) ==
    LET x == cluster.rows[k]["x"] \div 10
        y == cluster.rows[k]["y"] \div 10
    IN /\ y + 1 \in DOMAIN m
       /\ x + 1 \in DOMAIN m[y + 1]
       /\ m[y + 1][x + 1] = 255

\* The number of localizations of the cluster that mask i overlaps.
Overlap(i) == Cardinality({k \in DOMAIN cluster.rows : OnMask(masks[i], k)})

\* The masks with the largest overlap.
BestMasks == {i \in DOMAIN masks : \A j \in DOMAIN masks : Overlap(j) <= Overlap(i)}

ExceedsHalf(i) == 2 * Overlap(i) > Len(cluster.rows)

\* No localization of the cluster has a negative coordinate.
NoNegativePixel ==
    \A k \in DOMAIN cluster.rows :
        cluster.rows[k]["x"] >= 0 /\ cluster.rows[k]["y"] >= 0

\* Every mask is binary: each of its pixels is 0 or 255.
BinaryMasks ==
    \A i \in DOMAIN masks : \A y \in DOMAIN masks[i] :
        \A x \in DOMAIN masks[i][y] : masks[i][y][x] \in {0, 255}

\* C29: for binary masks and a cluster without negative coordinates,
\* decode_ids returns NaN when no mask overlaps the cluster or when the best
\* mask overlaps no more than 50% of its localizations; it returns the index
\* of a mask only when that mask's overlap is the unique maximum and exceeds
\* 50%, and it returns -1 when several masks tie for a maximum above 50%.
C29_MajorityDecoding ==
    pc = "decoded" /\ NoNegativePixel /\ BinaryMasks =>
        /\ (\A i \in BestMasks : ~ExceedsHalf(i)) => decoded = Nan
        /\ decoded.kind = "id" /\ decoded.id >= 0 =>
               /\ BestMasks = {decoded.id + 1}
               /\ ExceedsHalf(decoded.id + 1)
        /\ Cardinality(BestMasks) > 1 /\ (\A i \in BestMasks : ExceedsHalf(i)) =>
               decoded = Id(-1)

\* The table concat_z received for the k-th file of the list (k from 1).
Received(k) == Cleaned(hdf5_list[k], args)

\* The number of rows concatenated before the k-th file.
RECURSIVE RowsBefore(_)
RowsBefore(k) == IF k = 1 THEN 0 ELSE RowsBefore(k - 1) + Len(Received(k - 1).rows)

\* The rows of outdata that came from the k-th file.
Section(k) ==
    SubSeq(outdata.rows, RowsBefore(k) + 1, RowsBefore(k) + Len(Received(k).rows))

Concatenating == pc \in {"concat_loop", "concat_done"}

\* Every frame of a later section is above every frame of an earlier one.
SectionsOrdered ==
    \A j, k \in 1..item :
        j < k =>
            \A a \in DOMAIN Section(j), b \in DOMAIN Section(k) :
                Section(j)[a]["frame"] < Section(k)[b]["frame"]

\* The z of the k-th file (k from 0) is moved by k * z_step.
SectionsShifted ==
    \A k \in 1..item :
        /\ Len(Section(k)) = Len(Received(k).rows)
        /\ \A i \in DOMAIN Section(k) :
               Section(k)[i]["z"] = Received(k).rows[i]["z"] + (k - 1) * args.z_step

\* A step of the loop leaves the rows it found in outdata as they were.
EarlierRowsKept ==
    pc = "concat_loop" =>
        /\ Len(outdata'.rows) >= Len(outdata.rows)
        /\ SubSeq(outdata'.rows, 1, Len(outdata.rows)) = outdata.rows

\* C30: while concatenate.main concatenates non-empty tables sorted by
\* frame with frames >= 0, after any number of files every frame of a later
\* file's rows is strictly greater than every frame of all earlier files'
\* rows, the k-th file (k from 0) has z moved by exactly k * z_step, and a
\* later step leaves the rows already concatenated unchanged.
C30_SectionsDisjointOrdered ==
    /\ [](Concatenating =>
            /\ Len(outdata.rows) = RowsBefore(item + 1)
            /\ SectionsOrdered
            /\ SectionsShifted)
    /\ [][EarlierRowsKept]_vars

\* Three files are concatenated, and a file after the first starts at frame 0
\* and follows a file that ends at frame 0.
C30_Witness ==
    /\ pc = "concat_done"
    /\ item = 3
    /\ \E k \in 2..3 :
           /\ Received(k).rows[1]["frame"] = 0
           /\ Last(Received(k - 1).rows)["frame"] = 0
    /\ Len(outdata.rows) > 3

===========================================================================
